---- MODULE Spec2Model ----
(***************************************************************************)
(* canvas-cli: the course/assignment aggregator (src/api/client.js), the   *)
(* three-step upload driver (src/commands/assignment.js), the course colour*)
(* cache (src/ui/display.js) and the week grouping (src/utils/dates.js).   *)
(*                                                                         *)
(* Each component has a specification of its own (SpecAggregate,           *)
(* SpecUpload, SpecColor, SpecWeek, SpecFilter, SpecDueColor, SpecSort,    *)
(* SpecCli, SpecWeekFn, SpecError, SpecSubmit); the variables of the other *)
(* components stay at their initial values.                                *)
(*                                                                         *)
(* Conventions.  A JavaScript string whose characters matter is a sequence *)
(* of character codes; an opaque one is a TLA+ string.  null / undefined   *)
(* is Null.  Time is milliseconds since 1970-01-01T00:00 (a Thursday), and *)
(* the local time zone is UTC without daylight saving.                     *)
(***************************************************************************)
EXTENDS Integers, Sequences, FiniteSets, TLC

\* ------------------------------------------------------------------- state

\* getCourses / getAllAssignments (src/api/client.js)
VARIABLES
    authenticated,  \* config holds a token and a base URL
    apiCourses,     \* the server's answer to GET /api/v1/courses
    apiColors,      \* the server's custom_colors map
    apiPositions,   \* the server's dashboard_positions map
    aggPc,          \* where getAllAssignments stands
    pending,        \* the getCourses requests in flight
    inFlight,       \* the ids of the courses whose assignment request is in flight
    courses,        \* const courses = await getCourses()
    idx,            \* the position of the for..of loop in courses (1-based)
    allAssignments, \* const allAssignments
    skippedCourses, \* const skippedCourses
    attempted,      \* history: the ids of the courses a request was issued for
    outcomes,       \* history: the outcome of each per-course fetch, in order
    aggResult       \* what getAllAssignments returned

aggVars == <<authenticated, apiCourses, apiColors, apiPositions, aggPc, pending,
             inFlight, courses, idx, allAssignments, skippedCourses, attempted,
             outcomes, aggResult>>

\* uploadFile (src/commands/assignment.js)
VARIABLES
    fileExists,    \* whether filePath names a file (fs.statSync succeeds)
    upCourseId,    \* the courseId argument
    upAssignmentId,\* the assignmentId argument
    upPc,          \* where uploadFile stands
    upRequests,    \* history: the requests issued, in order
    upResponses,   \* history: the responses received, in order
    upResult,      \* what uploadFile returned
    upError        \* what uploadFile threw

upVars == <<fileExists, upCourseId, upAssignmentId, upPc, upRequests,
            upResponses, upResult, upError>>

\* getCourseColor (src/ui/display.js)
VARIABLES
    courseColorCache, \* const courseColorCache = new Map()
    colorCalls,       \* history: the calls made, each with what it returned
    lastCall,         \* history: the latest call, and the keys cached before it
    nCalls            \* history: the number of calls made

colorVars == <<courseColorCache, colorCalls, lastCall, nCalls>>

\* groupByWeek (src/utils/dates.js)
VARIABLES
    weekStartEnv, \* process.env.CANVAS_WEEK_START
    now,          \* the clock: new Date()
    weekInput,    \* the assignments groupByWeek is called with
    weekPc,       \* "input" before the call, "grouped" after it,
                  \* "regrouped" after a second call on the same input
    weekGroups,   \* what the latest call of groupByWeek returned
    weekFirst     \* history: the clock at the first call and what it returned

weekVars == <<weekStartEnv, now, weekInput, weekPc, weekGroups, weekFirst>>

\* isDueWithinDays, isOverdue, getDueDateColor (src/utils/dates.js)
VARIABLES
    clock,         \* the clock these functions read: new Date()
    filterCall,    \* history: the latest call of a filter, with its result
    dueColorCalls  \* history: the calls of getDueDateColor, with their results

dateVars == <<clock, filterCall, dueColorCalls>>

\* sortByDueDate, sortByCoursePositionThenDate (src/utils/dates.js)
VARIABLES
    sortInput,  \* the array as it was when the sort was called
    sortFn,     \* the sort that was called, "none" before the call
    sortResult  \* the array after the sort, which is also what it returns

sortVars == <<sortInput, sortFn, sortResult>>

\* The command line: index.js and listCommand (src/commands/list.js)
VARIABLES
    cliArgs,          \* process.argv.slice(2): the command, "" when there is none
    cliAuthenticated, \* config.isAuthenticated()
    weekViewWeeksEnv, \* process.env.CANVAS_WEEK_VIEW_WEEKS
    cliAssignments,   \* the assignments getAllAssignments resolves with
    cliPc,            \* "shell", "loading", "displayed" or "exit1"
    cliOptions,       \* the options listCommand was called with
    cliShown          \* what was displayed

cliVars == <<cliArgs, cliAuthenticated, weekViewWeeksEnv, cliAssignments, cliPc,
             cliOptions, cliShown>>

\* getWeekStart, getWeekEnd called on their own (src/utils/dates.js)
VARIABLES
    weekCall  \* history: the latest call, its argument and what it returned

weekFnVars == <<weekCall>>

\* displayError (src/utils/errors.js, the version that handles a 503)
VARIABLES
    errError,  \* the error displayError is called with
    errPc,     \* "caught" before the call, then "returned" or "raised"
    errLines   \* what console.error has printed, one entry for each call

errVars == <<errError, errPc, errLines>>

\* submitCommand (src/commands/assignment.js)
VARIABLES
    subAuthenticated, \* config.isAuthenticated()
    subPc,            \* where submitCommand stands
    subCourses,       \* const courses = await getCourses()
    subCourse,        \* const selectedCourse
    subAssignments,   \* let fileUploadAssignments
    subChoices,       \* const assignmentChoices, the choices of the first prompt
    subAllChoices,    \* const allChoices, the choices of the second prompt
    subSelected,      \* let selectedAssignment
    subFiles,         \* const files
    subFile,          \* const selectedFile
    subConfirmed,     \* const confirmed
    subLog            \* what console.log has printed of the outcome

subVars == <<subAuthenticated, subPc, subCourses, subCourse, subAssignments,
             subChoices, subAllChoices, subSelected, subFiles, subFile,
             subConfirmed, subLog>>

\* What each component leaves alone.
notAggVars == <<upVars, colorVars, weekVars, dateVars, sortVars, cliVars, weekFnVars, errVars, subVars>>
notUpVars == <<aggVars, colorVars, weekVars, dateVars, sortVars, cliVars, weekFnVars, errVars, subVars>>
notColorVars == <<aggVars, upVars, weekVars, dateVars, sortVars, cliVars, weekFnVars, errVars, subVars>>
notWeekVars == <<aggVars, upVars, colorVars, dateVars, sortVars, cliVars, weekFnVars, errVars, subVars>>
notDateVars == <<aggVars, upVars, colorVars, weekVars, sortVars, cliVars, weekFnVars, errVars, subVars>>
notSortVars == <<aggVars, upVars, colorVars, weekVars, dateVars, cliVars, weekFnVars, errVars, subVars>>
notCliVars == <<aggVars, upVars, colorVars, weekVars, dateVars, sortVars,
                weekFnVars, errVars, subVars>>
notSubVars == <<aggVars, colorVars, weekVars, sortVars, cliVars, weekFnVars,
                errVars>>
notErrVars == <<aggVars, upVars, colorVars, weekVars, dateVars, sortVars,
                cliVars, weekFnVars, subVars>>
notWeekFnVars == <<aggVars, upVars, colorVars, weekVars, dateVars, sortVars,
                   cliVars, errVars, subVars>>

vars == <<aggVars, upVars, colorVars, weekVars, dateVars, sortVars, cliVars,
          weekFnVars, errVars, subVars>>

\* ------------------------------------------------------------------ bounds

\* The course list holds at most MaxCourses courses.
MaxCourses == 3

\* A per-course fetch returns at most MaxAssignments assignments.
MaxAssignments == 2

\* getCourseColor is called at most MaxCalls times in one process.
MaxCalls == 3

\* groupByWeek is called with at most MaxItems assignments.
MaxItems == 2

\* Due dates fall on the days 0..MaxDay after 1970-01-01.
MaxDay == 13

\* The filters are asked about due dates on the days 0..MaxFilterDay and
\* about windows of 0..MaxWindowDays days.
MaxFilterDay == 5

MaxWindowDays == 2

\* getDueDateColor is asked about due dates on the days 0..MaxDueDay, at most
\* MaxDueColorCalls times.
MaxDueDay == 22

MaxDueColorCalls == 3

\* The sorts are called with at most MaxSortItems assignments.
MaxSortItems == 3

\* getAllAssignments hands listCommand at most MaxCliItems assignments.
MaxCliItems == 2

\* getWeekStart and getWeekEnd are asked about the days 0..MaxWeekFnDay.
MaxWeekFnDay == 8

\* submitCommand is offered at most MaxSubmitCourses courses, and the selected
\* course has at most MaxSubmitItems assignments.
MaxSubmitCourses == 2

MaxSubmitItems == 2

\* ------------------------------------------------------------ shared values

\* JavaScript null / undefined, where a string is expected.
Null == "null"

\* ================================================================ aggregator

\* The three requests of getCourses' Promise.all.
CourseRequests == {"courses", "colors", "positions"}

\* The course list sorts these positions against the default.
DefaultPosition == 999

\* `course_${course.id}`
CourseKey(id) == <<"course", id>>

\* The course the server lists with identifier k: "A", "B", ... and the code
\* "A101", "B101", ...
RawCourse(k) ==
    [id |-> k, name |-> <<64 + k>>, course_code |-> <<64 + k, 49, 48, 49>>]

\* The j-th assignment the server lists for the course c.
RawAssignment(c, j) == [id |-> 10 * c + j, course_id |-> c]

\* The course lists the server can answer with: n courses, in the order 1..n.
CourseLists == { [k \in 1..n |-> RawCourse(k)] : n \in 0..MaxCourses }

\* The custom_colors maps the server can answer with.
ColorMaps ==
    { [k \in {} |-> ""],
      [k \in {CourseKey(2)} |-> "#3366ff"],
      [k \in {CourseKey(1), CourseKey(2)} |->
           IF k = CourseKey(1) THEN "" ELSE "#00ff00"] }

\* The dashboard_positions maps the server can answer with, for n courses.
PositionMaps(n) ==
    UNION { [ {CourseKey(k) : k \in S} -> {0, 1} ] : S \in SUBSET (1..n) }

\* customColors[`course_${course.id}`] || null
CustomColorOf(customColors, id) ==
    IF CourseKey(id) \in DOMAIN customColors /\ customColors[CourseKey(id)] # ""
    THEN customColors[CourseKey(id)]
    ELSE Null

\* positions[`course_${course.id}`] ?? 999
PositionOfMutant(positions, id) ==
    IF CourseKey(id) \in DOMAIN positions /\ positions[CourseKey(id)] # 0
    THEN positions[CourseKey(id)]
    ELSE DefaultPosition

PositionOf(positions, id) ==
    IF CourseKey(id) \in DOMAIN positions
    THEN positions[CourseKey(id)]
    ELSE DefaultPosition

\* { ...course, custom_color, dashboard_position }
MergeCourse(course, customColors, positions) ==
    [id |-> course.id, name |-> course.name, course_code |-> course.course_code,
     custom_color |-> CustomColorOf(customColors, course.id),
     dashboard_position |-> PositionOf(positions, course.id)]

\* (a, b) => a.dashboard_position - b.dashboard_position
ByDashboardPosition(a, b) == a.dashboard_position - b.dashboard_position

\* days * 24 * 60 * 60 * 1000, for one day
MsPerDay == 86400000

\* No due date: a null, undefined or empty due_at.
NoDue == <<>>

\* new Date(assignment.due_at).getTime(): a due_at is the timestamp string of
\* a calendar day (counted from 1970-01-01) and a time of day.
ParseDate(due_at) == due_at[1] * MsPerDay + due_at[2]

\* a.course_position ?? 999: an absent position is <<>>, a position p is <<p>>.
PositionOrDefaultMutant(a) ==
    IF a.course_position = <<>> THEN 0 ELSE a.course_position[1]

PositionOrDefault(a) ==
    IF a.course_position = <<>> THEN DefaultPosition ELSE a.course_position[1]

\* The comparator of sortByCoursePositionThenDate.
ByCoursePositionThenDate(a, b) ==
    IF PositionOrDefault(a) # PositionOrDefault(b)
    THEN PositionOrDefault(a) - PositionOrDefault(b)
    ELSE IF a.due_at = NoDue /\ b.due_at = NoDue THEN 0
    ELSE IF a.due_at = NoDue THEN 1
    ELSE IF b.due_at = NoDue THEN -1
    ELSE ParseDate(a.due_at) - ParseDate(b.due_at)

\* The collation key of a character code for String.prototype.localeCompare
\* in the default locale: letters compare by letter first, whatever their
\* case.
Letter(c) == IF c >= 65 /\ c <= 90 THEN c + 32 ELSE c

\* The case of a character code: lower case sorts before upper case when the
\* letters are the same.
CaseRank(c) == IF c >= 65 /\ c <= 90 THEN 1 ELSE 0

\* Lexicographic comparison of two sequences of numbers: -1, 0 or 1.
RECURSIVE CompareSeq(_, _)
CompareSeq(x, y) ==
    IF x = <<>> /\ y = <<>> THEN 0
    ELSE IF x = <<>> THEN -1
    ELSE IF y = <<>> THEN 1
    ELSE IF Head(x) < Head(y) THEN -1
    ELSE IF Head(x) > Head(y) THEN 1
    ELSE CompareSeq(Tail(x), Tail(y))

\* a.localeCompare(b): by letters, then by case.
LocaleCompare(a, b) ==
    LET byLetter == CompareSeq([i \in 1..Len(a) |-> Letter(a[i])],
                               [i \in 1..Len(b) |-> Letter(b[i])])
    IN  IF byLetter # 0 THEN byLetter
        ELSE CompareSeq([i \in 1..Len(a) |-> CaseRank(a[i])],
                        [i \in 1..Len(b) |-> CaseRank(b[i])])

\* The comparator of sortByDueDate.
ByDueDateMutant(a, b) ==
    IF a.due_at = NoDue /\ b.due_at = NoDue
    THEN LocaleCompare(a.course_name, b.course_name)
    ELSE IF a.due_at = NoDue THEN 1
    ELSE IF b.due_at = NoDue THEN -1
    ELSE ParseDate(a.due_at) - ParseDate(b.due_at)

ByDueDate(a, b) ==
    IF a.due_at = NoDue /\ b.due_at = NoDue
    THEN LocaleCompare(a.course_name, b.course_name)
    ELSE IF a.due_at = NoDue THEN 1
    ELSE IF b.due_at = NoDue THEN -1
    ELSE IF ParseDate(a.due_at) = ParseDate(b.due_at)
    THEN LocaleCompare(a.course_name, b.course_name)
    ELSE ParseDate(a.due_at) - ParseDate(b.due_at)

\* (a, b) => a.weekStart - b.weekStart
ByWeekStartMutant(a, b) == b.weekStart - a.weekStart

ByWeekStart(a, b) == a.weekStart - b.weekStart

\* The comparators the program sorts with, by name.
Compare(order, a, b) ==
    CASE order = "dashboardPosition" -> ByDashboardPosition(a, b)
      [] order = "coursePositionThenDate" -> ByCoursePositionThenDate(a, b)
      [] order = "weekStart" -> ByWeekStart(a, b)
      [] order = "dueDate" -> ByDueDate(a, b)

\* Array.prototype.sort with a consistent comparator is a stable sort: x is
\* inserted into the sorted s after every element that does not compare
\* greater than it.
RECURSIVE InsertSorted(_, _, _)
InsertSorted(order, x, s) ==
    IF s = <<>> THEN <<x>>
    ELSE IF Compare(order, Head(s), x) <= 0
         THEN <<Head(s)>> \o InsertSorted(order, x, Tail(s))
         ELSE <<x>> \o s

RECURSIVE StableSort(_, _)
StableSort(order, s) ==
    IF s = <<>> THEN <<>>
    ELSE InsertSorted(order, s[Len(s)],
                      StableSort(order, SubSeq(s, 1, Len(s) - 1)))

\* getCourses, once its three responses are in: merge, then sort.
MergeCourses(list, customColors, positions) ==
    LET merged == [i \in 1..Len(list) |->
                      MergeCourse(list[i], customColors, positions)]
    IN  StableSort("dashboardPosition", merged)

\* The outcomes of one per-course request: the response body, an HTTP error
\* (error.response is set) or an error without a response (the network, or a
\* body that is no array).
FetchOutcomes(c) ==
    { [kind |-> "ok", status |-> 200,
       data |-> [j \in 1..n |-> RawAssignment(c, j)]] : n \in 0..MaxAssignments }
    \cup { [kind |-> "http", status |-> s, data |-> <<>>] : s \in {403, 500} }
    \cup { [kind |-> "noresponse", status |-> 0, data |-> <<>>] }

\* { ...assignment, course_name, course_code, course_color, course_id,
\*   course_position }
MergedAssignmentMutant(assignment, course) ==
    [id |-> assignment.id,
     course_name |-> course.name,
     course_code |-> course.course_code,
     course_color |-> course.custom_color,
     course_id |-> course.id,
     course_position |-> DefaultPosition]

MergedAssignment(assignment, course) ==
    [id |-> assignment.id,
     course_name |-> course.name,
     course_code |-> course.course_code,
     course_color |-> course.custom_color,
     course_id |-> course.id,
     course_position |-> course.dashboard_position]

\* error.response && error.response.status === 403
IsAccessRestrictedMutant(outcome) == outcome.kind # "ok"

IsAccessRestricted(outcome) == outcome.kind = "http" /\ outcome.status = 403

\* Whether the loop goes on to the next course after a failed fetch.
ContinuesAfterMutant(outcome) == IsAccessRestricted(outcome)

ContinuesAfter(outcome) == TRUE

InitAggregate ==
    /\ authenticated \in BOOLEAN
    /\ apiCourses \in CourseLists
    /\ apiColors \in ColorMaps
    /\ apiPositions \in PositionMaps(Len(apiCourses))
    /\ aggPc = "idle"
    /\ pending = {}
    /\ inFlight = {}
    /\ courses = <<>>
    /\ idx = 0
    /\ allAssignments = <<>>
    /\ skippedCourses = <<>>
    /\ attempted = <<>>
    /\ outcomes = <<>>
    /\ aggResult = Null

\* getAllAssignments is called: getCourses creates the client, which throws
\* without credentials, and issues its three requests at once.
GetCoursesStartMutant ==
    /\ aggPc = "idle"
    /\ IF authenticated
       THEN aggPc' = "getCourses" /\ pending' = {"courses"}
       ELSE aggPc' = "raised" /\ pending' = {}
    /\ UNCHANGED <<authenticated, apiCourses, apiColors, apiPositions, inFlight,
                   courses, idx, allAssignments, skippedCourses, attempted,
                   outcomes, aggResult>>
    /\ UNCHANGED notAggVars

GetCoursesStart ==
    /\ aggPc = "idle"
    /\ IF authenticated
       THEN aggPc' = "getCourses" /\ pending' = CourseRequests
       ELSE aggPc' = "raised" /\ pending' = {}
    /\ UNCHANGED <<authenticated, apiCourses, apiColors, apiPositions, inFlight,
                   courses, idx, allAssignments, skippedCourses, attempted,
                   outcomes, aggResult>>
    /\ UNCHANGED notAggVars

\* One of the three requests fails: Promise.all rejects, and getAllAssignments
\* with it.
GetCoursesFail(r) ==
    /\ aggPc = "getCourses"
    /\ r \in pending
    /\ pending' = pending \ {r}
    /\ aggPc' = "raised"
    /\ UNCHANGED <<authenticated, apiCourses, apiColors, apiPositions, inFlight,
                   courses, idx, allAssignments, skippedCourses, attempted,
                   outcomes, aggResult>>
    /\ UNCHANGED notAggVars

\* One of the three requests succeeds; the last one lets getCourses merge, sort
\* and return, and the loop of getAllAssignments begin.
GetCoursesArrive(r) ==
    /\ aggPc = "getCourses"
    /\ r \in pending
    /\ pending' = pending \ {r}
    /\ IF pending' = {}
       THEN /\ courses' = MergeCourses(apiCourses, apiColors, apiPositions)
            /\ aggPc' = "loop"
            /\ idx' = 1
       ELSE UNCHANGED <<courses, aggPc, idx>>
    /\ UNCHANGED <<authenticated, apiCourses, apiColors, apiPositions, inFlight,
                   allAssignments, skippedCourses, attempted, outcomes,
                   aggResult>>
    /\ UNCHANGED notAggVars

\* The loop reaches the next course and issues its request.
FetchIssueMutant ==
    /\ aggPc = "loop"
    /\ idx <= Len(courses)
    /\ inFlight' = {courses[i].id : i \in idx..Len(courses)}
    /\ attempted' = Append(attempted, courses[idx].id)
    /\ aggPc' = "fetching"
    /\ UNCHANGED <<authenticated, apiCourses, apiColors, apiPositions, pending,
                   courses, idx, allAssignments, skippedCourses, outcomes,
                   aggResult>>
    /\ UNCHANGED notAggVars

FetchIssue ==
    /\ aggPc = "loop"
    /\ idx <= Len(courses)
    /\ inFlight' = inFlight \cup {courses[idx].id}
    /\ attempted' = Append(attempted, courses[idx].id)
    /\ aggPc' = "fetching"
    /\ UNCHANGED <<authenticated, apiCourses, apiColors, apiPositions, pending,
                   courses, idx, allAssignments, skippedCourses, outcomes,
                   aggResult>>
    /\ UNCHANGED notAggVars

\* The request of the current course completes: its assignments are merged and
\* pushed, or the catch block records a 403 and continues.
FetchComplete ==
    /\ aggPc = "fetching"
    /\ \E o \in FetchOutcomes(courses[idx].id) :
        LET course == courses[idx]
            merged == [j \in 1..Len(o.data) |->
                          MergedAssignment(o.data[j], course)]
        IN  /\ outcomes' = Append(outcomes, o)
            /\ inFlight' = inFlight \ {course.id}
            /\ IF o.kind = "ok"
               THEN /\ allAssignments' = allAssignments \o merged
                    /\ UNCHANGED skippedCourses
                    /\ aggPc' = "loop"
               ELSE /\ skippedCourses' =
                          IF IsAccessRestricted(o)
                          THEN Append(skippedCourses, course.name)
                          ELSE skippedCourses
                    /\ UNCHANGED allAssignments
                    /\ aggPc' = IF ContinuesAfter(o) THEN "loop" ELSE "raised"
            /\ idx' = idx + 1
    /\ UNCHANGED <<authenticated, apiCourses, apiColors, apiPositions, pending,
                   courses, attempted, aggResult>>
    /\ UNCHANGED notAggVars

\* The loop is over: return { assignments: allAssignments, skippedCourses }.
AggregateReturn ==
    /\ aggPc = "loop"
    /\ idx > Len(courses)
    /\ aggResult' = [assignments |-> allAssignments,
                     skippedCourses |-> skippedCourses]
    /\ aggPc' = "returned"
    /\ UNCHANGED <<authenticated, apiCourses, apiColors, apiPositions, pending,
                   inFlight, courses, idx, allAssignments, skippedCourses,
                   attempted, outcomes>>
    /\ UNCHANGED notAggVars

IdleAggregate ==
    /\ authenticated = FALSE
    /\ apiCourses = <<>>
    /\ apiColors = [k \in {} |-> ""]
    /\ apiPositions = [k \in {} |-> 0]
    /\ aggPc = "idle"
    /\ pending = {}
    /\ inFlight = {}
    /\ courses = <<>>
    /\ idx = 0
    /\ allAssignments = <<>>
    /\ skippedCourses = <<>>
    /\ attempted = <<>>
    /\ outcomes = <<>>
    /\ aggResult = Null

AggregateStep ==
    \/ GetCoursesStart
    \/ \E r \in CourseRequests : GetCoursesFail(r)
    \/ \E r \in CourseRequests : GetCoursesArrive(r)
    \/ FetchIssue
    \/ FetchComplete
    \/ AggregateReturn

\* ==================================================================== upload

\* No error thrown.
NoError == [kind |-> "none", status |-> 0, step |-> 0]

\* `/api/v1/courses/${courseId}/assignments/${assignmentId}/submissions/self/files`
InitiateUrl(courseId, assignmentId) == <<"files", courseId, assignmentId>>

\* A response or a rejection of a request, as the code reads it: an HTTP
\* response has a status; step 1's body holds upload_url and, when the server
\* keeps its contract, upload_params; step 2's headers may hold a location;
\* step 3's body is the file descriptor.
Response(kind, status, url, hasParams, location, body) ==
    [kind |-> kind, status |-> status, upload_url |-> url,
     hasParams |-> hasParams, location |-> location, body |-> body]

NetworkError == Response("network", 0, "", FALSE, "", "")

\* axios' default validateStatus, used by client.post and client.get.
DefaultValidateStatus(status) == status >= 200 /\ status < 300

\* The answers to step 1.
InitiateResponses ==
    { Response("http", st, u, p, "", "") :
        st \in {200, 401, 500}, u \in {"https://up/1", "https://up/2"},
        p \in BOOLEAN }
    \cup {NetworkError}

\* The answers to step 2.
TransferResponses ==
    { Response("http", st, "", FALSE, loc, "") :
        st \in {200, 201, 301, 302, 400, 500},
        loc \in {"", "https://loc/1", "https://loc/2"} }
    \cup {NetworkError}

\* The answers to step 3.
ConfirmResponses ==
    { Response("http", st, "", FALSE, "", b) :
        st \in {200, 404}, b \in {"file1", "file2"} }
    \cup {NetworkError}

\* validateStatus: (status) => status === 301 || status < 400
ValidateStatusMutant(status) == status >= 200 /\ status < 300

ValidateStatus(status) == status = 301 \/ status < 400

\* !confirmUrl
MissingLocationMutant(location) == FALSE

MissingLocation(location) == location = ""

\* The URL step 3 goes to: uploadResponse.headers.location.
ConfirmUrlMutant(uploadUrl, transferResponse) == uploadUrl

ConfirmUrl(uploadUrl, transferResponse) == transferResponse.location

\* The error a rejected request carries, thrown on unchanged.
RequestErrorMutant(response, step) ==
    [kind |-> "upload", status |-> 0, step |-> step]

RequestError(response, step) ==
    [kind |-> response.kind, status |-> response.status, step |-> step]

InitUpload ==
    /\ fileExists \in BOOLEAN
    /\ upCourseId \in {1, 2}
    /\ upAssignmentId \in {11, 12}
    /\ upPc = "Idle"
    /\ upRequests = <<>>
    /\ upResponses = <<>>
    /\ upResult = Null
    /\ upError = NoError

\* uploadFile is called: fs.statSync throws for a missing file; otherwise the
\* step-1 request goes out.
UploadStart ==
    /\ upPc = "Idle"
    /\ IF fileExists
       THEN /\ upRequests' = Append(upRequests,
                  [step |-> 1, method |-> "POST",
                   url |-> InitiateUrl(upCourseId, upAssignmentId)])
            /\ upPc' = "AwaitingUploadTarget"
            /\ UNCHANGED upError
       ELSE /\ upError' = [kind |-> "stat", status |-> 0, step |-> 0]
            /\ upPc' = "Failed"
            /\ UNCHANGED upRequests
    /\ UNCHANGED <<fileExists, upCourseId, upAssignmentId, upResponses,
                   upResult>>
    /\ UNCHANGED notUpVars

\* Step 1 answers: a rejection is thrown on; otherwise the form is built from
\* upload_params (a TypeError without them) and posted to upload_url.
InitiateResponse ==
    /\ upPc = "AwaitingUploadTarget"
    /\ \E r \in InitiateResponses :
        /\ upResponses' = Append(upResponses, r)
        /\ IF r.kind # "http" \/ ~DefaultValidateStatus(r.status)
           THEN /\ upError' = RequestError(r, 1)
                /\ upPc' = "Failed"
                /\ UNCHANGED upRequests
           ELSE IF ~r.hasParams
           THEN /\ upError' = [kind |-> "type", status |-> 0, step |-> 1]
                /\ upPc' = "Failed"
                /\ UNCHANGED upRequests
           ELSE /\ upRequests' = Append(upRequests,
                      [step |-> 2, method |-> "POST", url |-> r.upload_url])
                /\ upPc' = "Transferring"
                /\ UNCHANGED upError
    /\ UNCHANGED <<fileExists, upCourseId, upAssignmentId, upResult>>
    /\ UNCHANGED notUpVars

\* Step 2 answers: a rejection (no response, or a status validateStatus
\* refuses) is thrown on; an accepted response without a location is the
\* protocol violation; otherwise step 3 goes to the location.
TransferResponse ==
    /\ upPc = "Transferring"
    /\ \E r \in TransferResponses :
        /\ upResponses' = Append(upResponses, r)
        /\ IF r.kind # "http" \/ ~ValidateStatus(r.status)
           THEN /\ upError' = RequestError(r, 2)
                /\ upPc' = "Failed"
                /\ UNCHANGED upRequests
           ELSE IF MissingLocation(ConfirmUrl(upRequests[2].url, r))
           THEN /\ upError' = [kind |-> "protocol", status |-> 0, step |-> 2]
                /\ upPc' = "Failed"
                /\ UNCHANGED upRequests
           ELSE /\ upRequests' = Append(upRequests,
                      [step |-> 3, method |-> "GET",
                       url |-> ConfirmUrl(upRequests[2].url, r)])
                /\ upPc' = "Confirming"
                /\ UNCHANGED upError
    /\ UNCHANGED <<fileExists, upCourseId, upAssignmentId, upResult>>
    /\ UNCHANGED notUpVars

\* Step 3 answers: a rejection is thrown on; otherwise its body is returned.
ConfirmResponse ==
    /\ upPc = "Confirming"
    /\ \E r \in ConfirmResponses :
        /\ upResponses' = Append(upResponses, r)
        /\ IF r.kind # "http" \/ ~DefaultValidateStatus(r.status)
           THEN /\ upError' = RequestError(r, 3)
                /\ upPc' = "Failed"
                /\ UNCHANGED upResult
           ELSE /\ upResult' = r.body
                /\ upPc' = "Complete"
                /\ UNCHANGED upError
    /\ UNCHANGED <<fileExists, upCourseId, upAssignmentId, upRequests>>
    /\ UNCHANGED notUpVars

UploadStep ==
    \/ UploadStart
    \/ InitiateResponse
    \/ TransferResponse
    \/ ConfirmResponse

IdleUpload ==
    /\ fileExists = FALSE
    /\ upCourseId = 1
    /\ upAssignmentId = 11
    /\ upPc = "Idle"
    /\ upRequests = <<>>
    /\ upResponses = <<>>
    /\ upResult = Null
    /\ upError = NoError

\* ============================================================ colour cache

\* The sum of the numbers of a sequence.
RECURSIVE SumSeq(_)
SumSeq(s) == IF s = <<>> THEN 0 ELSE Head(s) + SumSeq(Tail(s))

\* String(n) for a natural number: the character codes of its decimal digits.
RECURSIVE ToDigits(_)
ToDigits(n) ==
    IF n < 10 THEN <<48 + n>> ELSE ToDigits(n \div 10) \o <<48 + (n % 10)>>

\* The course names of the calls: "", "A", "B".  An absent name is "".
ColorNames == {<<>>, <<65>>, <<66>>}

\* The course ids of the calls; 0 stands for every falsy id (undefined, null).
ColorIds == {0, 12, 21}

\* The custom colours of the calls; "" stands for every falsy one (null).
CustomColors == {"", "#3366ff", "#ff0000"}

\* const colors = [chalk.cyan, chalk.green, chalk.yellow, chalk.magenta,
\*                 chalk.blue, chalk.red]
Palette == <<"cyan", "green", "yellow", "magenta", "blue", "red">>

\* const key = courseId || courseName: a Map key is a number or a string, and
\* 12 is not "12".
CacheKeyMutant(courseName, courseId) ==
    IF courseName # <<>> THEN <<"string", courseName>>
    ELSE <<"number", ToDigits(courseId)>>

CacheKey(courseName, courseId) ==
    IF courseId # 0 THEN <<"number", ToDigits(courseId)>>
    ELSE <<"string", courseName>>

\* courseColorCache.has(key)
CacheHitMutant(cache, key) == FALSE

CacheHit(cache, key) == key \in DOMAIN cache

\* key ? String(key).split('').reduce((acc, char) => acc + char.charCodeAt(0), 0) : 0
KeyHash(key) == IF key[2] = <<>> THEN 0 ELSE SumSeq(key[2])

\* colors[hash % colors.length]
FallbackColor(key) == <<"chalk", Palette[(KeyHash(key) % Len(Palette)) + 1]>>

\* The colour computed on a cache miss: chalk.hex(customColor) when the call
\* has a custom colour, the palette colour of the key's hash otherwise.
NewColorMutant(key, customColor) == FallbackColor(key)

NewColor(key, customColor) ==
    IF customColor # "" THEN <<"hex", customColor>> ELSE FallbackColor(key)

NoCall ==
    [name |-> <<>>, id |-> 0, custom |-> "", cachedBefore |-> {},
     result |-> <<"none", "">>]

InitColor ==
    /\ courseColorCache = [k \in {} |-> <<"none", "">>]
    /\ colorCalls = {}
    /\ lastCall = NoCall
    /\ nCalls = 0

\* getCourseColor(courseName, courseId, customColor)
GetCourseColor(courseName, courseId, customColor) ==
    /\ nCalls < MaxCalls
    /\ LET key == CacheKey(courseName, courseId)
           hit == CacheHit(courseColorCache, key)
           colorFunc == IF hit THEN courseColorCache[key]
                        ELSE NewColor(key, customColor)
       IN  /\ courseColorCache' =
                 IF hit THEN courseColorCache
                 ELSE [k \in DOMAIN courseColorCache \cup {key} |->
                          IF k = key THEN colorFunc ELSE courseColorCache[k]]
           /\ lastCall' = [name |-> courseName, id |-> courseId,
                           custom |-> customColor,
                           cachedBefore |-> DOMAIN courseColorCache,
                           result |-> colorFunc]
           /\ colorCalls' = colorCalls \cup
                 {[name |-> courseName, id |-> courseId,
                   custom |-> customColor, result |-> colorFunc]}
    /\ nCalls' = nCalls + 1
    /\ UNCHANGED notColorVars

ColorStep ==
    \E courseName \in ColorNames, courseId \in ColorIds,
       customColor \in CustomColors :
        GetCourseColor(courseName, courseId, customColor)

IdleColor == InitColor

\* ============================================================ week grouping

\* String.prototype.toLowerCase, on the strings of the model.
ToLowerCase(str) == IF str = "Monday" THEN "monday" ELSE str

\* const dayMap
DayMap ==
    [d \in {"sunday", "monday", "tuesday", "wednesday", "thursday", "friday",
            "saturday"} |->
        CASE d = "sunday" -> 0 [] d = "monday" -> 1 [] d = "tuesday" -> 2
          [] d = "wednesday" -> 3 [] d = "thursday" -> 4 [] d = "friday" -> 5
          [] d = "saturday" -> 6]

\* The values of CANVAS_WEEK_START: unset, a day name, or anything else.
WeekStartEnvs == {Null, "Monday", "bogus"} \cup DOMAIN DayMap

\* getWeekStartDay(): dayMap[(env || 'sunday').toLowerCase()] ?? 0
GetWeekStartDay ==
    LET day == ToLowerCase(IF weekStartEnv = Null THEN "sunday"
                           ELSE weekStartEnv)
    IN  IF day \in DOMAIN DayMap THEN DayMap[day] ELSE 0

\* The calendar day of a timestamp, counted from 1970-01-01.
DayIndex(t) == t \div MsPerDay

\* Date.prototype.getDay: 0 is Sunday; 1970-01-01 was a Thursday.
GetDay(t) == (DayIndex(t) + 4) % 7

\* Date.prototype.toLocaleDateString(undefined, { month: 'short' }), around
\* January 1970.
ShortMonth(t) ==
    IF DayIndex(t) < 0 THEN "Dec" ELSE IF DayIndex(t) < 31 THEN "Jan" ELSE "Feb"

\* Date.prototype.getDate, around January 1970.
GetDate(t) ==
    IF DayIndex(t) < 0 THEN DayIndex(t) + 32
    ELSE IF DayIndex(t) < 31 THEN DayIndex(t) + 1
    ELSE DayIndex(t) - 30

\* getWeekStart(date): back to the week start day, at 00:00:00.000.
GetWeekStartMutant(date) ==
    LET diff == GetDay(date) - GetWeekStartDay
    IN  (DayIndex(date) - diff) * MsPerDay

GetWeekStart(date) ==
    LET diff == (GetDay(date) - GetWeekStartDay + 7) % 7
    IN  (DayIndex(date) - diff) * MsPerDay

\* getWeekEnd(date): forward to the day before the next week start, at
\* 23:59:59.999.
GetWeekEndMutant(date) ==
    LET weekEndDay == (GetWeekStartDay + 6) % 7
        diff == weekEndDay - GetDay(date)
    IN  (DayIndex(date) + diff) * MsPerDay + (MsPerDay - 1)

GetWeekEnd(date) ==
    LET weekEndDay == (GetWeekStartDay + 6) % 7
        diff == (weekEndDay - GetDay(date) + 7) % 7
    IN  (DayIndex(date) + diff) * MsPerDay + (MsPerDay - 1)

\* formatWeekRange(weekStart): "Jan 6-12" or "Jan 27 - Feb 2".
FormatWeekRange(weekStart) ==
    LET weekEnd == GetWeekEnd(weekStart)
    IN  IF ShortMonth(weekStart) = ShortMonth(weekEnd)
        THEN <<ShortMonth(weekStart), GetDate(weekStart), "-", GetDate(weekEnd)>>
        ELSE <<ShortMonth(weekStart), GetDate(weekStart), " - ",
               ShortMonth(weekEnd), GetDate(weekEnd)>>

\* getWeekLabel(weekStart)
GetWeekLabelMutant(weekStart) ==
    LET thisWeekStart == GetWeekStart(now)
        nextWeekStart == thisWeekStart + 7 * MsPerDay
    IN  IF weekStart = thisWeekStart
        THEN <<"This Week">> \o FormatWeekRange(weekStart)
        ELSE IF weekStart >= nextWeekStart
        THEN <<"Next Week">> \o FormatWeekRange(weekStart)
        ELSE FormatWeekRange(weekStart)

GetWeekLabel(weekStart) ==
    LET thisWeekStart == GetWeekStart(now)
        nextWeekStart == thisWeekStart + 7 * MsPerDay
    IN  IF weekStart = thisWeekStart
        THEN <<"This Week">> \o FormatWeekRange(weekStart)
        ELSE IF weekStart = nextWeekStart
        THEN <<"Next Week">> \o FormatWeekRange(weekStart)
        ELSE FormatWeekRange(weekStart)

\* The callback of assignments.forEach in groupByWeek: skip an assignment
\* without due date, create the group of its week on first use, push it.
GroupAssignment(groups, assignment) ==
    IF assignment.due_at = NoDue THEN groups
    ELSE LET key == GetWeekStart(ParseDate(assignment.due_at))
             has == \E i \in 1..Len(groups) : groups[i].weekStart = key
             withKey == IF has THEN groups
                        ELSE Append(groups,
                                    [weekStart |-> key,
                                     label |-> GetWeekLabel(key),
                                     assignments |-> <<>>])
         IN  [i \in 1..Len(withKey) |->
                 IF withKey[i].weekStart = key
                 THEN [withKey[i] EXCEPT
                          !.assignments = Append(@, assignment)]
                 ELSE withKey[i]]

\* assignments.forEach(...): the groups, in the order the Map got them.
RECURSIVE GroupAll(_, _)
GroupAll(groups, assignments) ==
    IF assignments = <<>> THEN groups
    ELSE GroupAll(GroupAssignment(groups, Head(assignments)), Tail(assignments))

\* sortByCoursePositionThenDate(assignments)
SortByCoursePositionThenDate(assignments) ==
    StableSort("coursePositionThenDate", assignments)

\* const groups = new Map(): every call starts from an empty map of its own.
NewGroupsMutant == weekGroups

NewGroups == <<>>

\* groupByWeek(assignments)
GroupByWeekResult(assignments) ==
    LET sortedWeeks == StableSort("weekStart", GroupAll(NewGroups, assignments))
    IN  [i \in 1..Len(sortedWeeks) |->
            [sortedWeeks[i] EXCEPT
                !.assignments = SortByCoursePositionThenDate(@)]]

\* The due dates of the inputs: none, or the first or the last millisecond of
\* the first or the last day of a seven-day block.
DueDates ==
    {NoDue} \cup
    { <<d, t>> : d \in {x \in 0..MaxDay : x % 7 \in {0, 6}},
                 t \in {0, MsPerDay - 1} }

\* The assignments of the inputs; the id of an assignment is its place in the
\* input.
WeekItems(i) ==
    { [id |-> i, due_at |-> d, course_position |-> p] :
        d \in DueDates, p \in {<<>>, <<1>>} }

WeekInputs ==
    UNION { { s \in [1..n -> UNION {WeekItems(i) : i \in 1..n}] :
                \A i \in 1..n : s[i].id = i } : n \in 0..MaxItems }

\* The clock: noon of 1970-01-02 or of 1970-01-09.
NowChoices == { MsPerDay + MsPerDay \div 2, 8 * MsPerDay + MsPerDay \div 2 }

\* weekFirst before the first call.
NoFirst == [now |-> 0, groups |-> <<>>]

InitWeek ==
    /\ weekStartEnv \in WeekStartEnvs
    /\ now \in NowChoices
    /\ weekInput \in WeekInputs
    /\ weekPc = "input"
    /\ weekGroups = <<>>
    /\ weekFirst = NoFirst

\* groupByWeek(weekInput): the first call, and a second call on the same
\* input.  The call leaves its argument as it was: it pushes the assignments
\* into arrays of its own and sorts those.
GroupByWeek ==
    /\ weekPc \in {"input", "grouped"}
    /\ weekGroups' = GroupByWeekResult(weekInput)
    /\ weekPc' = (IF weekPc = "input" THEN "grouped" ELSE "regrouped")
    /\ weekFirst' = (IF weekPc = "input"
                     THEN [now |-> now, groups |-> GroupByWeekResult(weekInput)]
                     ELSE weekFirst)
    /\ UNCHANGED <<weekStartEnv, now, weekInput>>
    /\ UNCHANGED notWeekVars

\* Time passes between the two calls: new Date() reads another instant.
ClockAdvance ==
    /\ weekPc = "grouped"
    /\ \E t \in NowChoices : t > now /\ now' = t
    /\ UNCHANGED <<weekStartEnv, weekInput, weekPc, weekGroups, weekFirst>>
    /\ UNCHANGED notWeekVars

WeekStep == GroupByWeek \/ ClockAdvance

IdleWeek ==
    /\ weekStartEnv = Null
    /\ now = 0
    /\ weekInput = <<>>
    /\ weekPc = "input"
    /\ weekGroups = <<>>
    /\ weekFirst = NoFirst

\* ===================================================== filters and gradient

\* The instants new Date() reads: 1970-01-01T00:00 and three days later.
Clocks == {0, 3 * MsPerDay}

\* The assignments the filters are asked about: no due date, or a due date at
\* the first, the second or the last millisecond of a day; the API's
\* has_submitted_submissions is a boolean.
FilterItems ==
    { [due_at |-> d, has_submitted_submissions |-> f] :
        d \in {NoDue} \cup ((0..MaxFilterDay) \X {0, 1, MsPerDay - 1}),
        f \in BOOLEAN }

\* isDueWithinDays(assignment, days)
IsDueWithinDaysMutant(assignment, days) ==
    IF assignment.due_at = NoDue THEN FALSE
    ELSE LET dueDate == ParseDate(assignment.due_at)
             daysFromNow == clock + days * MsPerDay
         IN  dueDate <= daysFromNow

IsDueWithinDays(assignment, days) ==
    IF assignment.due_at = NoDue THEN FALSE
    ELSE LET dueDate == ParseDate(assignment.due_at)
             daysFromNow == clock + days * MsPerDay
         IN  dueDate >= clock /\ dueDate <= daysFromNow

\* isOverdue(assignment)
IsOverdueMutant(assignment) ==
    IF assignment.due_at = NoDue THEN FALSE
    ELSE ParseDate(assignment.due_at) < clock

IsOverdue(assignment) ==
    IF assignment.due_at = NoDue THEN FALSE
    ELSE /\ ParseDate(assignment.due_at) < clock
         /\ ~assignment.has_submitted_submissions

\* isDue(assignment)
IsDueMutant(assignment) ==
    IF assignment.due_at = NoDue THEN FALSE
    ELSE ParseDate(assignment.due_at) > clock

IsDue(assignment) ==
    IF assignment.due_at = NoDue THEN FALSE
    ELSE ParseDate(assignment.due_at) >= clock

\* A fraction num/den in lowest terms: t is kept exact.
RECURSIVE Gcd(_, _)
Gcd(a, b) == IF b = 0 THEN a ELSE Gcd(b, a % b)

Fraction(num, den) ==
    [num |-> num \div Gcd(num, den), den |-> den \div Gcd(num, den)]

\* Math.round(x) for x = num/den, den > 0: the nearest integer, a half
\* upwards.
MathRound(num, den) == (2 * num + den) \div (2 * den)

\* lerp(start, end, t) = Math.round(start + (end - start) * t)
LerpMutant(start, end, t) == (start * t.den + (end - start) * t.num) \div t.den

Lerp(start, end, t) ==
    MathRound(start * t.den + (end - start) * t.num, t.den)

\* The colour stops of getDueDateColor.
Red == [r |-> 215, g |-> 95, b |-> 95]

Yellow == [r |-> 215, g |-> 175, b |-> 95]

Green == [r |-> 95, g |-> 175, b |-> 95]

\* n.toString(16).padStart(2, '0'), for 0 <= n <= 255
HexDigits == <<"0", "1", "2", "3", "4", "5", "6", "7",
               "8", "9", "a", "b", "c", "d", "e", "f">>

ToHex(n) == <<HexDigits[(n \div 16) + 1], HexDigits[(n % 16) + 1]>>

\* `#${toHex(r)}${toHex(g)}${toHex(b)}`
HexColor(r, g, b) == <<"#">> \o ToHex(r) \o ToHex(g) \o ToHex(b)

\* '#5FAF5F', the literal returned for no due date.
NoDueColor == <<"#", "5", "F", "A", "F", "5", "F">>

\* The if-chain of getDueDateColor on daysUntilDue = diff / msPerDay, kept as
\* the difference diff in milliseconds, and the conversion to hex.
DueDateGradient(diff) ==
    IF diff <= MsPerDay
    THEN HexColor(Red.r, Red.g, Red.b)
    ELSE IF diff <= 7 * MsPerDay
    THEN LET t == Fraction(diff - MsPerDay, 6 * MsPerDay)
         IN  HexColor(Lerp(Red.r, Yellow.r, t),
                      Lerp(Red.g, Yellow.g, t),
                      Lerp(Red.b, Yellow.b, t))
    ELSE IF diff <= 13 * MsPerDay
    THEN LET t == Fraction(diff - 7 * MsPerDay, 6 * MsPerDay)
         IN  HexColor(Lerp(Yellow.r, Green.r, t),
                      Lerp(Yellow.g, Green.g, t),
                      Lerp(Yellow.b, Green.b, t))
    ELSE HexColor(Green.r, Green.g, Green.b)

\* getDueDateColor(dateString): date - now, with now read from the clock.
GetDueDateColorMutant(dateString) ==
    IF \E c \in dueColorCalls : c.due_at = dateString
    THEN (CHOOSE c \in dueColorCalls : c.due_at = dateString).result
    ELSE IF dateString = NoDue THEN NoDueColor
    ELSE DueDateGradient(ParseDate(dateString) - clock)

GetDueDateColor(dateString) ==
    IF dateString = NoDue THEN NoDueColor
    ELSE DueDateGradient(ParseDate(dateString) - clock)

\* The due dates getDueDateColor is asked about: none, or every third day at
\* 00:00 or 03:00.
DueColorDates ==
    {NoDue} \cup
    ({d \in 0..MaxDueDay : d % 3 = 1} \X {0, MsPerDay \div 8})

\* filterCall before any call.
NoFilterCall ==
    [fn |-> "none", due_at |-> NoDue, has_submitted_submissions |-> FALSE,
     days |-> 0, now |-> 0, result |-> FALSE]

InitDates ==
    /\ clock \in Clocks
    /\ filterCall = NoFilterCall
    /\ dueColorCalls = {}

\* A call isDueWithinDays(a, days) at the instant clock.
IsDueWithinDaysCall(a, days) ==
    /\ filterCall' = [fn |-> "isDueWithinDays", due_at |-> a.due_at,
                      has_submitted_submissions |-> a.has_submitted_submissions,
                      days |-> days, now |-> clock,
                      result |-> IsDueWithinDays(a, days)]
    /\ UNCHANGED <<clock, dueColorCalls>>
    /\ UNCHANGED notDateVars

\* A call isOverdue(a) at the instant clock.
IsOverdueCall(a) ==
    /\ filterCall' = [fn |-> "isOverdue", due_at |-> a.due_at,
                      has_submitted_submissions |-> a.has_submitted_submissions,
                      days |-> 0, now |-> clock,
                      result |-> IsOverdue(a)]
    /\ UNCHANGED <<clock, dueColorCalls>>
    /\ UNCHANGED notDateVars

\* A call isDue(a) at the instant clock.
IsDueCall(a) ==
    /\ filterCall' = [fn |-> "isDue", due_at |-> a.due_at,
                      has_submitted_submissions |-> a.has_submitted_submissions,
                      days |-> 0, now |-> clock,
                      result |-> IsDue(a)]
    /\ UNCHANGED <<clock, dueColorCalls>>
    /\ UNCHANGED notDateVars

\* A call getDueDateColor(dateString) at the instant clock.
GetDueDateColorCall(dateString) ==
    /\ Cardinality(dueColorCalls) < MaxDueColorCalls
    /\ dueColorCalls' = dueColorCalls \cup
           {[due_at |-> dateString, now |-> clock,
             result |-> GetDueDateColor(dateString)]}
    /\ UNCHANGED <<clock, filterCall>>
    /\ UNCHANGED notDateVars

\* Time passes between two calls.
ClockTick ==
    /\ \E t \in Clocks : t > clock /\ clock' = t
    /\ UNCHANGED <<filterCall, dueColorCalls>>
    /\ UNCHANGED notDateVars

IdleDates ==
    /\ clock = 0
    /\ filterCall = NoFilterCall
    /\ dueColorCalls = {}

\* ===================================================================== sorts

\* sortByDueDate(assignments)
SortByDueDate(assignments) == StableSort("dueDate", assignments)

\* The course names of the sorted assignments: "a" and "B".
SortNames == {<<97>>, <<66>>}

\* The assignments the sorts are called with; the id of an assignment is its
\* place in the input.
SortItems(i) ==
    { [id |-> i, due_at |-> d, course_name |-> n, course_position |-> p] :
        d \in {NoDue, <<1, 0>>, <<2, 0>>},
        n \in SortNames,
        p \in {<<>>, <<1>>, <<1000>>} }

SortInputs ==
    UNION { { s \in [1..n -> UNION {SortItems(i) : i \in 1..n}] :
                \A i \in 1..n : s[i].id = i } : n \in 0..MaxSortItems }

InitSort ==
    /\ sortInput \in SortInputs
    /\ sortFn = "none"
    /\ sortResult = <<>>

\* A call sortByDueDate(sortInput): the array is sorted in place and returned.
SortByDueDateCall ==
    /\ sortFn = "none"
    /\ sortFn' = "sortByDueDate"
    /\ sortResult' = SortByDueDate(sortInput)
    /\ UNCHANGED sortInput
    /\ UNCHANGED notSortVars

\* A call sortByCoursePositionThenDate(sortInput).
SortByCoursePositionThenDateCall ==
    /\ sortFn = "none"
    /\ sortFn' = "sortByCoursePositionThenDate"
    /\ sortResult' = SortByCoursePositionThenDate(sortInput)
    /\ UNCHANGED sortInput
    /\ UNCHANGED notSortVars

IdleSort ==
    /\ sortInput = <<>>
    /\ sortFn = "none"
    /\ sortResult = <<>>

\* ============================================================== command line

\* The commands of index.js that end in listCommand; "" is no command.
ListCommands == {"", "list", "list-all", "list-all-due", "list-all-overdue"}

\* The values of CANVAS_WEEK_VIEW_WEEKS: unset, "2" and "x".
WeekViewWeeksEnvs == {<<>>, <<50>>, <<120>>}

\* parseInt(str, 10) of a string of digits; NaN is -1.
RECURSIVE ParseInt(_)
ParseInt(str) ==
    IF str = <<>> THEN -1
    ELSE IF \E i \in 1..Len(str) : str[i] < 48 \/ str[i] > 57 THEN -1
    ELSE IF Len(str) = 1 THEN str[1] - 48
    ELSE 10 * ParseInt(SubSeq(str, 1, Len(str) - 1)) + (str[Len(str)] - 48)

\* getWeekViewWeeks(): isNaN(weeks) ? 1 : weeks
GetWeekViewWeeks ==
    IF ParseInt(weekViewWeeksEnv) = -1 THEN 1 ELSE ParseInt(weekViewWeeksEnv)

\* Math.ceil(num / den) for den > 0.
MathCeil(num, den) == -((-num) \div den)

\* index.js without a command: the end of the current week plus the
\* configured weeks, and the days from now until then.
TargetWeekEnd == GetWeekEnd(clock) + GetWeekViewWeeks * 7 * MsPerDay

DaysUntilEnd == MathCeil(TargetWeekEnd - clock, MsPerDay)

\* The options index.js calls listCommand with.
NoOptions ==
    [all |-> FALSE, due |-> FALSE, overdue |-> FALSE, weekView |-> FALSE,
     days |-> -1]

OptionsOf(args) ==
    CASE args = "" -> [NoOptions EXCEPT !.weekView = TRUE, !.days = DaysUntilEnd]
      [] args = "list" -> NoOptions
      [] args = "list-all" -> [NoOptions EXCEPT !.all = TRUE]
      [] args = "list-all-due" -> [NoOptions EXCEPT !.all = TRUE, !.due = TRUE]
      [] args = "list-all-overdue" ->
            [NoOptions EXCEPT !.all = TRUE, !.overdue = TRUE]

\* allAssignments.filter(keep), for the filters of listCommand.
RECURSIVE FilterAssignments(_, _)
FilterAssignments(keep, assignments) ==
    IF assignments = <<>> THEN <<>>
    ELSE LET a == Head(assignments)
             kept == CASE keep = "isOverdue" -> IsOverdue(a)
                       [] keep = "isDue" -> IsDue(a)
                       [] keep = "all" -> TRUE
                       [] keep = "isDueWithin3Days" -> IsDueWithinDays(a, 3)
         IN  (IF kept THEN <<a>> ELSE <<>>) \o
             FilterAssignments(keep, Tail(assignments))

\* The if-chain of listCommand on its options.
FilteredAssignments(options, assignments) ==
    IF options.all /\ options.overdue
    THEN FilterAssignments("isOverdue", assignments)
    ELSE IF options.all /\ options.due
    THEN FilterAssignments("isDue", assignments)
    ELSE IF options.all
    THEN FilterAssignments("all", assignments)
    ELSE FilterAssignments("isDueWithin3Days", assignments)

\* What listCommand displays: displayAssignmentsList(sortByDueDate(filtered)).
ListDisplay(options, assignments) ==
    [view |-> "list",
     assignments |-> SortByDueDate(FilteredAssignments(options, assignments)),
     groups |-> <<>>]

\* Nothing displayed.
NoDisplay == [view |-> "none", assignments |-> <<>>, groups |-> <<>>]

\* The assignments getAllAssignments resolves with; the id of an assignment
\* is its place in the sequence.
CliItems(i) ==
    { [id |-> i, due_at |-> d, has_submitted_submissions |-> f,
       course_name |-> <<97>>, course_position |-> <<1>>] :
        d \in {NoDue, <<2, 0>>, <<5, 0>>, <<9, 0>>}, f \in BOOLEAN }

CliInputs ==
    UNION { { s \in [1..n -> UNION {CliItems(i) : i \in 1..n}] :
                \A i \in 1..n : s[i].id = i } : n \in 0..MaxCliItems }

InitCli ==
    /\ cliArgs \in ListCommands
    /\ cliAuthenticated \in BOOLEAN
    /\ weekViewWeeksEnv \in WeekViewWeeksEnvs
    /\ cliAssignments \in CliInputs
    /\ cliPc = "shell"
    /\ cliOptions = NoOptions
    /\ cliShown = NoDisplay

\* index.js calls listCommand with the options of the command; requireAuth
\* exits without credentials, otherwise getAllAssignments is awaited.
CliRun ==
    /\ cliPc = "shell"
    /\ cliOptions' = OptionsOf(cliArgs)
    /\ cliPc' = (IF cliAuthenticated THEN "loading" ELSE "exit1")
    /\ UNCHANGED <<cliArgs, cliAuthenticated, weekViewWeeksEnv, cliAssignments,
                   cliShown>>
    /\ UNCHANGED notCliVars

\* getAllAssignments resolved: filter, sort, display.
CliLoaded ==
    /\ cliPc = "loading"
    /\ cliShown' = ListDisplay(cliOptions, cliAssignments)
    /\ cliPc' = "displayed"
    /\ UNCHANGED <<cliArgs, cliAuthenticated, weekViewWeeksEnv, cliAssignments,
                   cliOptions>>
    /\ UNCHANGED notCliVars

\* getAllAssignments rejected: displayError, process.exit(1).
CliLoadFailed ==
    /\ cliPc = "loading"
    /\ cliPc' = "exit1"
    /\ UNCHANGED <<cliArgs, cliAuthenticated, weekViewWeeksEnv, cliAssignments,
                   cliOptions, cliShown>>
    /\ UNCHANGED notCliVars

IdleCli ==
    /\ cliArgs = ""
    /\ cliAuthenticated = FALSE
    /\ weekViewWeeksEnv = <<>>
    /\ cliAssignments = <<>>
    /\ cliPc = "shell"
    /\ cliOptions = NoOptions
    /\ cliShown = NoDisplay

\* ======================================================== week boundaries

\* The dates getWeekStart and getWeekEnd are asked about: the first, the
\* second, the middle and the last millisecond of a day.
WeekFnDates ==
    { d * MsPerDay + t : d \in 0..MaxWeekFnDay,
                         t \in {0, 1, MsPerDay \div 2, MsPerDay - 1} }

\* weekCall before any call.
NoWeekCall == [fn |-> "none", date |-> 0, result |-> 0]

InitWeekFn ==
    /\ weekStartEnv \in WeekStartEnvs
    /\ now = 0
    /\ weekInput = <<>>
    /\ weekPc = "input"
    /\ weekGroups = <<>>
    /\ weekFirst = NoFirst
    /\ weekCall = NoWeekCall

\* A call getWeekStart(date).
GetWeekStartCall(date) ==
    /\ weekCall' = [fn |-> "getWeekStart", date |-> date,
                    result |-> GetWeekStart(date)]
    /\ UNCHANGED notWeekFnVars

\* A call getWeekEnd(date).
GetWeekEndCall(date) ==
    /\ weekCall' = [fn |-> "getWeekEnd", date |-> date,
                    result |-> GetWeekEnd(date)]
    /\ UNCHANGED notWeekFnVars

IdleWeekFn == weekCall = NoWeekCall

\* =========================================================== error display

\* A JavaScript string whose characters matter is the sequence of its
\* characters.  String.prototype.trim removes the white space at both ends.
WhiteSpace == {" ", "\n"}

RECURSIVE TrimStart(_)
TrimStart(text) ==
    IF text # <<>> /\ Head(text) \in WhiteSpace
    THEN TrimStart(Tail(text))
    ELSE text

RECURSIVE TrimEnd(_)
TrimEnd(text) ==
    IF text # <<>> /\ text[Len(text)] \in WhiteSpace
    THEN TrimEnd(SubSeq(text, 1, Len(text) - 1))
    ELSE text

Trim(text) == TrimEnd(TrimStart(text))

\* String.prototype.startsWith.
StartsWith(text, prefix) ==
    /\ Len(prefix) <= Len(text)
    /\ SubSeq(text, 1, Len(prefix)) = prefix

\* '<!DOCTYPE' and '<html'.
DoctypePrefix == <<"<", "!", "D", "O", "C", "T", "Y", "P", "E">>

HtmlPrefix == <<"<", "h", "t", "m", "l">>

\* error.response.data: axios hands over the body as a string, or as the
\* object it parsed from JSON, here an object of string fields.
StringBody(text) == [type |-> "string", text |-> text, entries |-> <<>>]

ObjectBody(entries) == [type |-> "object", text |-> <<>>, entries |-> entries]

\* The bodies the server answers with: plain text, an empty string, HTML
\* pages (one after a blank line), and JSON objects.
Bodies ==
    { StringBody(<<"d", "o", "w", "n">>),
      StringBody(<<>>),
      StringBody(<<"\n", " ">> \o DoctypePrefix \o <<" ", "h", "t", "m", "l", ">">>),
      StringBody(HtmlPrefix \o <<">">>),
      ObjectBody(<<>>),
      ObjectBody(<< <<"e", "r", "r">>, <<"b", "u", "s", "y">> >>) }

\* JSON.stringify of a string: none of the characters of Bodies needs an
\* escape.
Quoted(text) == <<"\"">> \o text \o <<"\"">>

\* JSON.stringify(data, null, 2): a string in quotes, an object with one
\* "key": "value" line for each field, indented by two spaces.  Here an
\* object is <<>> or one key followed by its value.
JsonStringify(data) ==
    IF data.type = "string" THEN Quoted(data.text)
    ELSE IF data.entries = <<>> THEN <<"{", "}">>
    ELSE <<"{", "\n", " ", " ">> \o Quoted(data.entries[1]) \o <<":", " ">>
            \o Quoted(data.entries[2]) \o <<"\n", "}">>

\* The HTTP statuses an error response carries.
ErrorStatuses == {400, 401, 404, 500, 503}

StatusText(status) ==
    CASE status = 400 -> "Bad Request"
      [] status = 401 -> "Unauthorized"
      [] status = 404 -> "Not Found"
      [] status = 500 -> "Internal Server Error"
      [] status = 503 -> "Service Unavailable"

\* error.config?.url: missing, or the URL of the request.
ErrorUrls == {Null, "/api/v1/courses"}

NoBody == StringBody(<<>>)

\* The errors displayError is called with: an axios error with a response,
\* an axios error with a request and no response, and any other Error.
Errors ==
    { [kind |-> "response", status |-> st, statusText |-> StatusText(st),
       url |-> u, data |-> d, message |-> "Request failed", stack |-> "stack"] :
         st \in ErrorStatuses, u \in ErrorUrls, d \in Bodies }
    \cup
    { [kind |-> "request", status |-> 0, statusText |-> "", url |-> u,
       data |-> NoBody, message |-> "Network Error", stack |-> "stack"] :
         u \in ErrorUrls }
    \cup
    { [kind |-> "other", status |-> 0, statusText |-> "", url |-> Null,
       data |-> NoBody, message |-> m, stack |-> "stack"] :
         m \in {"File not found", "Not authenticated"} }

\* One call of console.error: the label and what follows it.
Line(label, text) == [label |-> label, text |-> text]

\* The lines of guidance printed for a 503.
Guidance ==
    << Line("Canvas is currently unavailable (503 Service Unavailable)", <<>>),
       Line("This usually means:", <<>>),
       Line("Canvas is down for maintenance", <<>>),
       Line("Canvas is experiencing service issues", <<>>),
       Line("Check status at: ", <<"https://status.instructure.com/">>) >>

\* The lines that print the response data.
ResponseData(data) ==
    << Line("Response Data:", <<>>), Line("", JsonStringify(data)) >>

\* const isHtml = typeof data === 'string' && data.trim().startsWith('<!DOCTYPE')
\*                || data.trim().startsWith('<html'):
\* && binds tighter than ||, so when the left operand is false the right one
\* is evaluated whatever the type of data is, and data.trim is not a function
\* when data is not a string.  The value is "TypeError" then.
IsHtml(data) ==
    IF data.type = "string" /\ StartsWith(Trim(data.text), DoctypePrefix)
    THEN "true"
    ELSE IF data.type # "string" THEN "TypeError"
    ELSE IF StartsWith(Trim(data.text), HtmlPrefix) THEN "true"
    ELSE "false"

\* The stack trace every path but the 503 one ends with.
StackTrace(error) ==
    << Line("Stack Trace:", <<>>), Line("", <<error.stack>>) >>

\* displayError(error): what it prints and whether it raises.
DisplayError(error) ==
    LET banner == << Line("[ERROR]", <<>>) >>
    IN  IF error.kind = "response"
        THEN IF error.status = 503
             THEN CASE IsHtml(error.data) = "TypeError" ->
                          [lines |-> banner \o Guidance, raised |-> TRUE]
                    [] IsHtml(error.data) = "false" ->
                          [lines |-> banner \o Guidance
                                       \o ResponseData(error.data),
                           raised |-> FALSE]
                    [] IsHtml(error.data) = "true" ->
                          [lines |-> banner \o Guidance, raised |-> FALSE]
             ELSE [lines |-> banner
                      \o << Line("Status:", <<ToString(error.status)>>),
                            Line("Status Text:", <<error.statusText>>),
                            Line("URL:", <<IF error.url # Null THEN error.url
                                           ELSE "N/A">>) >>
                      \o ResponseData(error.data)
                      \o StackTrace(error),
                   raised |-> FALSE]
        ELSE IF error.kind = "request"
        THEN [lines |-> banner
                 \o << Line("No response received from server", <<>>),
                       Line("Request:", <<"request">>) >>
                 \o StackTrace(error),
              raised |-> FALSE]
        ELSE [lines |-> banner \o << Line("Message:", <<error.message>>) >>
                 \o StackTrace(error),
              raised |-> FALSE]

InitError ==
    /\ errError \in Errors
    /\ errPc = "caught"
    /\ errLines = <<>>

\* A catch block calls displayError(error).
DisplayErrorCall ==
    /\ errPc = "caught"
    /\ errLines' = DisplayError(errError).lines
    /\ errPc' = IF DisplayError(errError).raised THEN "raised" ELSE "returned"
    /\ UNCHANGED errError
    /\ UNCHANGED notErrVars

IdleError ==
    /\ errError = CHOOSE e \in Errors : e.kind = "other"
    /\ errPc = "caught"
    /\ errLines = <<>>

\* ================================================================== submit

\* The submission_types the server lists: none (the field absent or empty,
\* which the filter treats alike), text entry only, and text entry or upload.
SubmissionTypes ==
    { <<>>, <<"online_text_entry">>, <<"online_text_entry", "online_upload">> }

\* The due dates of the assignments of the selected course: none, the day
\* before now, now, three days from now to the millisecond, and one
\* millisecond later.
SubmitDues == {NoDue, <<2, 0>>, <<3, 0>>, <<6, 0>>, <<6, 1>>}

\* The assignments the server lists for the course c: the j-th has the id
\* 10 * c + j.
SubmitAssignmentLists(c) ==
    UNION { { l \in [1..n -> [id : {10 * c + j : j \in 1..n},
                              due_at : SubmitDues,
                              submission_types : SubmissionTypes]] :
                \A j \in 1..n : l[j].id = 10 * c + j }
            : n \in 0..MaxSubmitItems }

\* The courses getCourses resolves with: none, or the first n.
SubmitCourseLists ==
    { [k \in 1..n |-> MergeCourse(RawCourse(k), <<>>, <<>>)] :
        n \in 0..MaxSubmitCourses }

\* fs.readdirSync(currentDir) with what fs.statSync says of each entry.
DirEntry(name, isFile) == [name |-> name, isFile |-> isFile]

Listings ==
    { << DirEntry(<<"s", "r", "c">>, FALSE), DirEntry(<<".", "e", "n", "v">>, TRUE) >>,
      << DirEntry(<<".", "e", "n", "v">>, TRUE), DirEntry(<<"h", "w">>, TRUE) >>,
      << DirEntry(<<"h", "w">>, TRUE), DirEntry(<<"a", ".", "c">>, TRUE) >> }

\* stat.isFile() && !file.startsWith('.')
IsVisibleFile(entry) == entry.isFile /\ ~StartsWith(entry.name, <<".">>)

\* fs.readdirSync(currentDir).filter(...): the names of the entries kept.
VisibleFiles(listing) ==
    LET kept == SelectSeq(listing, IsVisibleFile)
    IN  [i \in 1..Len(kept) |-> kept[i].name]

\* allAssignments.map(a => ({ ...a, course_name, course_code, course_color,
\* course_id }))
AttachCourse(assignments, course) ==
    [i \in 1..Len(assignments) |->
        [id |-> assignments[i].id, due_at |-> assignments[i].due_at,
         submission_types |-> assignments[i].submission_types,
         course_name |-> course.name, course_code |-> course.course_code,
         course_color |-> course.custom_color, course_id |-> course.id]]

\* a.submission_types && a.submission_types.includes('online_upload')
AcceptsUpload(a) ==
    \E i \in 1..Len(a.submission_types) : a.submission_types[i] = "online_upload"

\* No assignment: undefined.
NoAssignment ==
    [id |-> 0, due_at |-> NoDue, submission_types |-> <<>>, course_name |-> <<>>,
     course_code |-> <<>>, course_color |-> Null, course_id |-> 0]

\* No course: null.
NoCourse ==
    [id |-> 0, name |-> <<>>, course_code |-> <<>>, custom_color |-> Null,
     dashboard_position |-> DefaultPosition]

\* A choice of the prompt whose value is an assignment, the separator, and
\* the choice whose value is '__SHOW_ALL__'.
AssignmentChoice(a) == [kind |-> "assignment", value |-> a]

Separator == [kind |-> "separator", value |-> NoAssignment]

ShowAll == [kind |-> "showAll", value |-> NoAssignment]

\* The prompt answered with nothing.
Nothing == [kind |-> "nothing", value |-> NoAssignment]

\* sortedAll.map(a => ({ name, value: a }))
ChoicesOf(assignments) ==
    [i \in 1..Len(assignments) |-> AssignmentChoice(assignments[i])]

\* const assignmentChoices: the assignments due within 3 days, sorted, then
\* the separator and the "show all" choice when more are due later.
AssignmentChoices(fileUploadAssignments) ==
    LET upcomingAssignments ==
            FilterAssignments("isDueWithin3Days", fileUploadAssignments)
        allFutureAssignments ==
            FilterAssignments("isDue", fileUploadAssignments)
    IN  ChoicesOf(SortByDueDate(upcomingAssignments))
            \o (IF Len(allFutureAssignments) > Len(upcomingAssignments)
                THEN <<Separator, ShowAll>>
                ELSE <<>>)

\* const allChoices: every future assignment, sorted.
AllChoices(fileUploadAssignments) ==
    ChoicesOf(SortByDueDate(FilterAssignments("isDue", fileUploadAssignments)))

\* What a list prompt can be answered with: one of its choices, the
\* separator excepted, or nothing.
Answers(choices) ==
    {choices[i] : i \in {j \in 1..Len(choices) : choices[j].kind # "separator"}}
        \cup {Nothing}

InitSubmit ==
    /\ subAuthenticated \in BOOLEAN
    /\ subPc = "shell"
    /\ subCourses = <<>>
    /\ subCourse = NoCourse
    /\ subAssignments = <<>>
    /\ subChoices = <<>>
    /\ subAllChoices = <<>>
    /\ subSelected = NoAssignment
    /\ subFiles = <<>>
    /\ subFile = <<>>
    /\ subConfirmed = FALSE
    /\ subLog = <<>>
    /\ clock = 3 * MsPerDay
    /\ filterCall = NoFilterCall
    /\ dueColorCalls = {}

\* submitCommand is called: requireAuth exits without credentials, otherwise
\* getCourses is awaited.
SubmitRun ==
    /\ subPc = "shell"
    /\ subPc' = (IF subAuthenticated THEN "loadingCourses" ELSE "exit1")
    /\ UNCHANGED <<subAuthenticated, subCourses, subCourse, subAssignments,
                   subChoices, subAllChoices, subSelected, subFiles, subFile,
                   subConfirmed, subLog>>
    /\ UNCHANGED <<upVars, dateVars>>
    /\ UNCHANGED notSubVars

\* getCourses resolved: return when there is no course, otherwise prompt for
\* one.
SubmitCoursesLoaded ==
    /\ subPc = "loadingCourses"
    /\ \E cs \in SubmitCourseLists :
          /\ subCourses' = cs
          /\ IF Len(cs) = 0
             THEN /\ subLog' = Append(subLog, "No courses found")
                  /\ subPc' = "returned"
             ELSE /\ subPc' = "selectCourse"
                  /\ UNCHANGED subLog
    /\ UNCHANGED <<subAuthenticated, subCourse, subAssignments, subChoices,
                   subAllChoices, subSelected, subFiles, subFile, subConfirmed>>
    /\ UNCHANGED <<upVars, dateVars>>
    /\ UNCHANGED notSubVars

\* selectCourse resolved: return when nothing was selected, otherwise await
\* the assignments of the course.
SubmitCourseSelected ==
    /\ subPc = "selectCourse"
    /\ \E c \in {subCourses[i] : i \in 1..Len(subCourses)} \cup {NoCourse} :
          /\ subCourse' = c
          /\ subPc' = (IF c = NoCourse THEN "returned" ELSE "loadingAssignments")
    /\ UNCHANGED <<subAuthenticated, subCourses, subAssignments, subChoices,
                   subAllChoices, subSelected, subFiles, subFile, subConfirmed,
                   subLog>>
    /\ UNCHANGED <<upVars, dateVars>>
    /\ UNCHANGED notSubVars

\* getAssignmentsForCourse resolved: attach the course, keep the file upload
\* assignments, return when there is none, otherwise build the choices and
\* prompt.
SubmitAssignmentsLoaded ==
    /\ subPc = "loadingAssignments"
    /\ \E as \in SubmitAssignmentLists(subCourse.id) :
          LET fileUploadAssignments ==
                  SelectSeq(AttachCourse(as, subCourse), AcceptsUpload)
          IN  /\ subAssignments' = fileUploadAssignments
              /\ IF Len(fileUploadAssignments) = 0
                 THEN /\ subLog' = Append(subLog,
                            "No file upload assignments found for this course")
                      /\ subPc' = "returned"
                      /\ UNCHANGED subChoices
                 ELSE /\ subChoices' = AssignmentChoices(fileUploadAssignments)
                      /\ subPc' = "selectAssignment"
                      /\ UNCHANGED subLog
    /\ UNCHANGED <<subAuthenticated, subCourses, subCourse, subAllChoices,
                   subSelected, subFiles, subFile, subConfirmed>>
    /\ UNCHANGED <<upVars, dateVars>>
    /\ UNCHANGED notSubVars

\* From `if (!selectedAssignment)` on: return when nothing was selected;
\* otherwise list the files of the directory, return when there is none and
\* prompt for one otherwise.
SubmitChosen(answer) ==
    /\ subSelected' = answer.value
    /\ IF answer.kind = "nothing"
       THEN /\ subPc' = "returned"
            /\ UNCHANGED <<subFiles, subLog>>
       ELSE \E listing \in Listings :
               /\ subFiles' = VisibleFiles(listing)
               /\ IF Len(VisibleFiles(listing)) = 0
                  THEN /\ subLog' = Append(subLog,
                             "No files found in current directory")
                       /\ subPc' = "returned"
                  ELSE /\ subPc' = "selectFile"
                       /\ UNCHANGED subLog

\* The first prompt resolved: '__SHOW_ALL__' opens the second prompt with
\* every future assignment.
SubmitAssignmentSelected ==
    /\ subPc = "selectAssignment"
    /\ \E answer \in Answers(subChoices) :
          IF answer.kind = "showAll"
          THEN /\ subAllChoices' = AllChoices(subAssignments)
               /\ subPc' = "selectAll"
               /\ UNCHANGED <<subSelected, subFiles, subLog>>
          ELSE /\ SubmitChosen(answer)
               /\ UNCHANGED subAllChoices
    /\ UNCHANGED <<subAuthenticated, subCourses, subCourse, subAssignments,
                   subChoices, subFile, subConfirmed>>
    /\ UNCHANGED <<upVars, dateVars>>
    /\ UNCHANGED notSubVars

\* The second prompt resolved.
SubmitAllSelected ==
    /\ subPc = "selectAll"
    /\ \E answer \in Answers(subAllChoices) : SubmitChosen(answer)
    /\ UNCHANGED <<subAuthenticated, subCourses, subCourse, subAssignments,
                   subChoices, subAllChoices, subFile, subConfirmed>>
    /\ UNCHANGED <<upVars, dateVars>>
    /\ UNCHANGED notSubVars

\* selectFile resolved: return when nothing was selected, otherwise ask for
\* the confirmation.
SubmitFileSelected ==
    /\ subPc = "selectFile"
    /\ \E f \in {subFiles[i] : i \in 1..Len(subFiles)} \cup {<<>>} :
          /\ subFile' = f
          /\ subPc' = (IF f = <<>> THEN "returned" ELSE "confirm")
    /\ UNCHANGED <<subAuthenticated, subCourses, subCourse, subAssignments,
                   subChoices, subAllChoices, subSelected, subFiles,
                   subConfirmed, subLog>>
    /\ UNCHANGED <<upVars, dateVars>>
    /\ UNCHANGED notSubVars

\* confirm resolved: return when declined; otherwise uploadFile is called
\* with the course, the assignment and the file: fs.statSync throws when the
\* file is gone by now, otherwise the step-1 request goes out.
SubmitConfirmedMutant ==
    /\ subPc = "confirm"
    /\ \E answer \in BOOLEAN, exists \in BOOLEAN :
          /\ subConfirmed' = answer
          /\ subPc' = "uploading"
          /\ UNCHANGED subLog
          /\ fileExists' = exists
          /\ upCourseId' = subSelected.course_id
          /\ upAssignmentId' = subSelected.id
          /\ IF exists
             THEN /\ upRequests' = Append(upRequests,
                        [step |-> 1, method |-> "POST",
                         url |-> InitiateUrl(subSelected.course_id,
                                             subSelected.id)])
                  /\ upPc' = "AwaitingUploadTarget"
                  /\ UNCHANGED upError
             ELSE /\ upError' = [kind |-> "stat", status |-> 0, step |-> 0]
                  /\ upPc' = "Failed"
                  /\ UNCHANGED upRequests
    /\ UNCHANGED <<subAuthenticated, subCourses, subCourse, subAssignments,
                   subChoices, subAllChoices, subSelected, subFiles, subFile>>
    /\ UNCHANGED <<upResponses, upResult>>
    /\ UNCHANGED dateVars
    /\ UNCHANGED notSubVars

SubmitConfirmed ==
    /\ subPc = "confirm"
    /\ \E answer \in BOOLEAN, exists \in BOOLEAN :
          /\ subConfirmed' = answer
          /\ IF ~answer
             THEN /\ subLog' = Append(subLog, "Submission cancelled")
                  /\ subPc' = "returned"
                  /\ UNCHANGED upVars
             ELSE /\ subPc' = "uploading"
                  /\ UNCHANGED subLog
                  /\ fileExists' = exists
                  /\ upCourseId' = subSelected.course_id
                  /\ upAssignmentId' = subSelected.id
                  /\ IF exists
                     THEN /\ upRequests' = Append(upRequests,
                                [step |-> 1, method |-> "POST",
                                 url |-> InitiateUrl(subSelected.course_id,
                                                     subSelected.id)])
                          /\ upPc' = "AwaitingUploadTarget"
                          /\ UNCHANGED upError
                     ELSE /\ upError' = [kind |-> "stat", status |-> 0,
                                         step |-> 0]
                          /\ upPc' = "Failed"
                          /\ UNCHANGED upRequests
                  /\ UNCHANGED <<upResponses, upResult>>
    /\ UNCHANGED <<subAuthenticated, subCourses, subCourse, subAssignments,
                   subChoices, subAllChoices, subSelected, subFiles, subFile>>
    /\ UNCHANGED dateVars
    /\ UNCHANGED notSubVars

\* uploadFile resolved: the success message.
SubmitUploaded ==
    /\ subPc = "uploading"
    /\ upPc = "Complete"
    /\ subLog' = Append(subLog, "File submitted successfully!")
    /\ subPc' = "submitted"
    /\ UNCHANGED <<subAuthenticated, subCourses, subCourse, subAssignments,
                   subChoices, subAllChoices, subSelected, subFiles, subFile,
                   subConfirmed>>
    /\ UNCHANGED <<upVars, dateVars>>
    /\ UNCHANGED notSubVars

\* uploadFile rejected: displayError(error), process.exit(1).
SubmitUploadFailed ==
    /\ subPc = "uploading"
    /\ upPc = "Failed"
    /\ subPc' = "exit1"
    /\ UNCHANGED <<subAuthenticated, subCourses, subCourse, subAssignments,
                   subChoices, subAllChoices, subSelected, subFiles, subFile,
                   subConfirmed, subLog>>
    /\ UNCHANGED <<upVars, dateVars>>
    /\ UNCHANGED notSubVars

\* A request or a prompt that submitCommand awaits rejected: displayError(error),
\* process.exit(1).
SubmitAwaitRejected ==
    /\ subPc \in {"loadingCourses", "selectCourse", "loadingAssignments",
                  "selectAssignment", "selectAll", "selectFile", "confirm"}
    /\ subPc' = "exit1"
    /\ UNCHANGED <<subAuthenticated, subCourses, subCourse, subAssignments,
                   subChoices, subAllChoices, subSelected, subFiles, subFile,
                   subConfirmed, subLog>>
    /\ UNCHANGED <<upVars, dateVars>>
    /\ UNCHANGED notSubVars

IdleSubmit ==
    /\ subAuthenticated = FALSE
    /\ subPc = "shell"
    /\ subCourses = <<>>
    /\ subCourse = NoCourse
    /\ subAssignments = <<>>
    /\ subChoices = <<>>
    /\ subAllChoices = <<>>
    /\ subSelected = NoAssignment
    /\ subFiles = <<>>
    /\ subFile = <<>>
    /\ subConfirmed = FALSE
    /\ subLog = <<>>

\* ============================================================ specifications

\* getAllAssignments alone.
InitAggregateAlone ==
    InitAggregate /\ IdleUpload /\ IdleColor /\ IdleWeek /\ IdleDates
    /\ IdleSort /\ IdleCli /\ IdleWeekFn
    /\ IdleError /\ IdleSubmit

NextAggregate == AggregateStep

SpecAggregate == InitAggregateAlone /\ [][NextAggregate]_vars

\* uploadFile alone.
InitUploadAlone ==
    InitUpload /\ IdleAggregate /\ IdleColor /\ IdleWeek /\ IdleDates
    /\ IdleSort /\ IdleCli /\ IdleWeekFn
    /\ IdleError /\ IdleSubmit

NextUpload == UploadStep

SpecUpload == InitUploadAlone /\ [][NextUpload]_vars

\* getCourseColor alone.
InitColorAlone ==
    InitColor /\ IdleAggregate /\ IdleUpload /\ IdleWeek /\ IdleDates
    /\ IdleSort /\ IdleCli /\ IdleWeekFn
    /\ IdleError /\ IdleSubmit

NextColor == ColorStep

SpecColor == InitColorAlone /\ [][NextColor]_vars

\* groupByWeek alone.
InitWeekAlone ==
    InitWeek /\ IdleAggregate /\ IdleUpload /\ IdleColor /\ IdleDates
    /\ IdleSort /\ IdleCli /\ IdleWeekFn
    /\ IdleError /\ IdleSubmit

NextWeek == GroupByWeek \/ ClockAdvance

SpecWeek == InitWeekAlone /\ [][NextWeek]_vars

\* The filters alone.
InitFilterAlone ==
    InitDates /\ IdleAggregate /\ IdleUpload /\ IdleColor /\ IdleWeek
    /\ IdleSort /\ IdleCli /\ IdleWeekFn
    /\ IdleError /\ IdleSubmit

NextFilter ==
    \/ \E a \in FilterItems, days \in 0..MaxWindowDays :
          IsDueWithinDaysCall(a, days)
    \/ \E a \in FilterItems : IsOverdueCall(a)
    \/ \E a \in FilterItems : IsDueCall(a)
    \/ ClockTick

SpecFilter == InitFilterAlone /\ [][NextFilter]_vars

\* getDueDateColor alone.
InitDueColorAlone ==
    InitDates /\ IdleAggregate /\ IdleUpload /\ IdleColor /\ IdleWeek
    /\ IdleSort /\ IdleCli /\ IdleWeekFn
    /\ IdleError /\ IdleSubmit

NextDueColor ==
    \/ \E d \in DueColorDates : GetDueDateColorCall(d)
    \/ ClockTick

SpecDueColor == InitDueColorAlone /\ [][NextDueColor]_vars

\* The sorts alone.
InitSortAlone ==
    InitSort /\ IdleAggregate /\ IdleUpload /\ IdleColor /\ IdleWeek
    /\ IdleDates /\ IdleCli /\ IdleWeekFn
    /\ IdleError /\ IdleSubmit

NextSort == SortByDueDateCall \/ SortByCoursePositionThenDateCall

SpecSort == InitSortAlone /\ [][NextSort]_vars

\* The command line alone, at some instant of the clock.
InitCliAlone ==
    InitCli /\ IdleAggregate /\ IdleUpload /\ IdleColor /\ IdleWeek
    /\ InitDates /\ IdleSort /\ IdleWeekFn
    /\ IdleError /\ IdleSubmit

NextCli == CliRun \/ CliLoaded \/ CliLoadFailed

SpecCli == InitCliAlone /\ [][NextCli]_vars

\* getWeekStart and getWeekEnd alone, for every setting of the week start.
InitWeekFnAlone ==
    InitWeekFn /\ IdleAggregate /\ IdleUpload /\ IdleColor /\ IdleDates
    /\ IdleSort /\ IdleCli
    /\ IdleError /\ IdleSubmit

NextWeekFn ==
    \/ \E d \in WeekFnDates : GetWeekStartCall(d)
    \/ \E d \in WeekFnDates : GetWeekEndCall(d)

SpecWeekFn == InitWeekFnAlone /\ [][NextWeekFn]_vars

\* displayError alone, for every error.
InitErrorAlone ==
    InitError /\ IdleAggregate /\ IdleUpload /\ IdleColor /\ IdleWeek
    /\ IdleDates /\ IdleSort /\ IdleCli /\ IdleWeekFn /\ IdleSubmit

NextError == DisplayErrorCall

SpecError == InitErrorAlone /\ [][NextError]_vars

\* submitCommand alone, with the uploadFile it calls, at 1970-01-04T00:00.
InitSubmitAlone ==
    InitSubmit /\ IdleAggregate /\ IdleUpload /\ IdleColor /\ IdleWeek
    /\ IdleSort /\ IdleCli /\ IdleWeekFn /\ IdleError

NextSubmit ==
    \/ SubmitRun
    \/ SubmitCoursesLoaded
    \/ SubmitCourseSelected
    \/ SubmitAssignmentsLoaded
    \/ SubmitAssignmentSelected
    \/ SubmitAllSelected
    \/ SubmitFileSelected
    \/ SubmitConfirmed
    \/ InitiateResponse
    \/ TransferResponse
    \/ ConfirmResponse
    \/ SubmitUploaded
    \/ SubmitUploadFailed
    \/ SubmitAwaitRejected

SpecSubmit == InitSubmitAlone /\ [][NextSubmit]_vars

\* =========================================================== the claims

\* The names of the first n courses of the list whose fetch failed with HTTP
\* 403, in the order of the list.
RECURSIVE Names403(_)
Names403(n) ==
    IF n = 0 THEN <<>>
    ELSE Names403(n - 1) \o
         (IF outcomes[n].kind = "http" /\ outcomes[n].status = 403
          THEN <<courses[n].name>> ELSE <<>>)

\* C1: skippedCourses is exactly the sequence of the names of the courses whose
\* assignment fetch failed with HTTP 403, in course iteration order: after
\* every fetch, and in the result returned.  A course that fetched zero
\* assignments or failed with another error is not in it.
C1_SkippedExactly403 ==
    /\ skippedCourses = Names403(Len(outcomes))
    /\ aggPc = "returned" =>
          /\ Len(outcomes) = Len(courses)
          /\ aggResult.skippedCourses = Names403(Len(courses))

\* C1 witness: a result over three courses of which one returned no
\* assignment, one failed with 403 and one failed with 500; only the second
\* is reported as skipped.
C1_Witness ==
    /\ aggPc = "returned"
    /\ Len(courses) = 3
    /\ \E i, j, k \in 1..3 :
          /\ outcomes[i].kind = "ok" /\ outcomes[i].data = <<>>
          /\ outcomes[j].kind = "http" /\ outcomes[j].status = 403
          /\ outcomes[k].kind = "http" /\ outcomes[k].status = 500
          /\ aggResult.skippedCourses = <<courses[j].name>>

\* C2: once getCourses has succeeded (the loop position is set),
\* getAllAssignments never raises; a request is issued for every course of
\* the list once, in order, whatever the earlier outcomes; while it has not
\* returned a step is possible, and what it returns is the pair of the
\* accumulated assignments and skipped courses.
C2_NeverAbortsAfterCourses ==
    idx >= 1 =>
      /\ aggPc \in {"loop", "fetching", "returned"}
      /\ idx <= Len(courses) + 1
      /\ Len(attempted) = (IF aggPc = "fetching" THEN idx ELSE idx - 1)
      /\ \A i \in 1..Len(attempted) : attempted[i] = courses[i].id
      /\ aggPc # "returned" => ENABLED NextAggregate
      /\ aggPc = "returned" =>
            /\ Len(attempted) = Len(courses)
            /\ Len(outcomes) = Len(courses)
            /\ aggResult = [assignments |-> allAssignments,
                            skippedCourses |-> skippedCourses]

\* C2 witness: a result returned after the first course failed with 500 and
\* the second with 403, the third having been fetched after both.
C2_Witness ==
    /\ aggPc = "returned"
    /\ Len(courses) = 3
    /\ outcomes[1].kind = "http" /\ outcomes[1].status = 500
    /\ outcomes[2].kind = "http" /\ outcomes[2].status = 403
    /\ outcomes[3].kind = "ok"
    /\ attempted = <<courses[1].id, courses[2].id, courses[3].id>>

\* What the n-th course of the list contributes: the assignments its fetch
\* returned, in that order, each with the course's id, name, code, custom
\* colour and dashboard position; nothing when its fetch failed.
Contribution(n) ==
    IF outcomes[n].kind = "ok"
    THEN [j \in 1..Len(outcomes[n].data) |->
             [id |-> outcomes[n].data[j].id,
              course_name |-> courses[n].name,
              course_code |-> courses[n].course_code,
              course_color |-> courses[n].custom_color,
              course_id |-> courses[n].id,
              course_position |-> courses[n].dashboard_position]]
    ELSE <<>>

RECURSIVE Contributions(_)
Contributions(n) ==
    IF n = 0 THEN <<>> ELSE Contributions(n - 1) \o Contribution(n)

\* C3: the assignments accumulated, and those of the result, are the
\* contributions of the courses fetched so far in course iteration order:
\* each carries the metadata of the course whose successful fetch returned
\* it, and a failed course contributes none.
C3_AssignmentsCarryCourse ==
    /\ allAssignments = Contributions(Len(outcomes))
    /\ aggPc = "returned" =>
          /\ aggResult.assignments = Contributions(Len(courses))
          /\ \A a \in {aggResult.assignments[i] :
                           i \in 1..Len(aggResult.assignments)} :
                \E n \in 1..Len(courses) :
                   /\ outcomes[n].kind = "ok"
                   /\ a.course_id = courses[n].id
                   /\ a.course_id = attempted[n]

\* C3 witness: a result in which a failed course lies between two courses
\* that each contributed assignments, one of them with a custom colour and a
\* dashboard position of its own.
C3_Witness ==
    /\ aggPc = "returned"
    /\ Len(courses) = 3
    /\ outcomes[1].kind = "ok" /\ Len(outcomes[1].data) = 2
    /\ outcomes[2].kind # "ok"
    /\ outcomes[3].kind = "ok" /\ Len(outcomes[3].data) = 1
    /\ Len(aggResult.assignments) = 3
    /\ courses[1].custom_color # Null
    /\ courses[1].dashboard_position # DefaultPosition
    /\ aggResult.assignments[3].course_id = courses[3].id

\* Whether the step-2 response was accepted: an HTTP response whose status is
\* 301 or below 400.
TransferAccepted ==
    /\ Len(upResponses) >= 2
    /\ upResponses[2].kind = "http"
    /\ (upResponses[2].status = 301 \/ upResponses[2].status < 400)

\* C4: when the step-2 response has an accepted status and no location
\* header, uploadFile has failed with the protocol-violation error and only
\* the initiate and transfer requests were ever issued.
C4_NoLocationFailsBeforeConfirm ==
    (TransferAccepted /\ upResponses[2].location = "") =>
      /\ upPc = "Failed"
      /\ upError = [kind |-> "protocol", status |-> 0, step |-> 2]
      /\ Len(upRequests) = 2
      /\ \A i \in 1..Len(upRequests) : upRequests[i].step # 3
      /\ upResult = Null
      /\ ~ENABLED NextUpload

\* C4 witness: step 2 answered 200 without a location and the upload failed
\* with the protocol violation.
C4_Witness ==
    /\ Len(upResponses) = 2
    /\ upResponses[2].kind = "http"
    /\ upResponses[2].status = 200
    /\ upResponses[2].location = ""
    /\ upPc = "Failed"
    /\ upError.kind = "protocol"

\* Whether the i-th response received is a success for axios' default
\* validateStatus.
Succeeded(i) ==
    /\ upResponses[i].kind = "http"
    /\ upResponses[i].status >= 200
    /\ upResponses[i].status < 300

\* C5: the requests issued are a prefix of initiate, transfer, confirm; the
\* transfer follows a successful initiate response and goes to its
\* upload_url; the confirm follows an accepted transfer response with a
\* location and goes to that location; Complete is reached only after the
\* confirm succeeded, with its body as the result and no error; each state
\* of the driver matches the requests issued and responses received, and
\* Failed is terminal.
C5_FixedOrder ==
    /\ Len(upRequests) <= 3
    /\ \A i \in 1..Len(upRequests) : upRequests[i].step = i
    /\ Len(upRequests) >= 1 =>
          upRequests[1].url = InitiateUrl(upCourseId, upAssignmentId)
    /\ Len(upRequests) >= 2 =>
          /\ Succeeded(1)
          /\ upRequests[2].url = upResponses[1].upload_url
    /\ Len(upRequests) >= 3 =>
          /\ TransferAccepted
          /\ upResponses[2].location # ""
          /\ upRequests[3].url = upResponses[2].location
    /\ upPc = "Idle" => Len(upRequests) = 0 /\ Len(upResponses) = 0
    /\ upPc = "AwaitingUploadTarget" =>
          Len(upRequests) = 1 /\ Len(upResponses) = 0
    /\ upPc = "Transferring" => Len(upRequests) = 2 /\ Len(upResponses) = 1
    /\ upPc = "Confirming" => Len(upRequests) = 3 /\ Len(upResponses) = 2
    /\ upPc = "Complete" =>
          /\ Len(upRequests) = 3 /\ Len(upResponses) = 3
          /\ Succeeded(3)
          /\ upResult = upResponses[3].body
          /\ upError = NoError
    /\ upPc = "Failed" =>
          /\ upError # NoError
          /\ upResult = Null
          /\ ~ENABLED NextUpload
    /\ upPc # "Complete" => upResult = Null

\* C5 witness: an upload that completed, its transfer having been answered
\* with a redirect to the location the confirm request went to.
C5_Witness ==
    /\ upPc = "Complete"
    /\ upRequests[2].url = "https://up/2"
    /\ upResponses[2].status = 301
    /\ upRequests[3].url = "https://loc/2"
    /\ upResult = "file2"

\* The key of a call: the course id, or the course name when the id is absent.
KeyOf(call) ==
    IF call.id # 0 THEN <<"number", ToDigits(call.id)>>
    ELSE <<"string", call.name>>

\* C6 as claimed: whatever the cache holds, a call that supplies a custom
\* colour returns that colour and leaves it cached under the key.
C6_CustomColorAlwaysWins ==
    (nCalls > 0 /\ lastCall.custom # "") =>
      /\ lastCall.result = <<"hex", lastCall.custom>>
      /\ KeyOf(lastCall) \in DOMAIN courseColorCache
      /\ courseColorCache[KeyOf(lastCall)] = <<"hex", lastCall.custom>>

\* C6 as amended: a call that supplies a custom colour for a key that has no
\* cache entry yet returns that colour and leaves it cached under the key;
\* the cache is consulted first, so a call for a key that has an entry
\* returns the entry, whatever custom colour it supplies.
C6_CustomColorOnColdKey ==
    nCalls > 0 =>
      /\ KeyOf(lastCall) \in DOMAIN courseColorCache
      /\ lastCall.result = courseColorCache[KeyOf(lastCall)]
      /\ (lastCall.custom # "" /\ KeyOf(lastCall) \notin lastCall.cachedBefore)
            => lastCall.result = <<"hex", lastCall.custom>>
      /\ KeyOf(lastCall) \in lastCall.cachedBefore =>
            \E c \in colorCalls :
               /\ KeyOf(c) = KeyOf(lastCall)
               /\ c.result = lastCall.result
               /\ c.custom # "" => c.result = <<"hex", c.custom>>

\* C6 witness: after calls for other keys, a call with a custom colour for a
\* key not yet cached returned the custom colour, now cached under the
\* course id.
C6_Witness ==
    /\ nCalls = 3
    /\ lastCall.id = 21
    /\ lastCall.custom = "#3366ff"
    /\ lastCall.cachedBefore = {<<"number", <<49, 50>>>>, <<"string", <<65>>>>}
    /\ lastCall.result = <<"hex", "#3366ff">>
    /\ courseColorCache[<<"number", <<50, 49>>>>] = <<"hex", "#3366ff">>

\* C7: any two calls made so far with the same key and the same custom
\* colour input returned the same colour.
C7_StableForKeyAndCustom ==
    \A c1, c2 \in colorCalls :
        (KeyOf(c1) = KeyOf(c2) /\ c1.custom = c2.custom) =>
            c1.result = c2.result

\* C7 witness: two calls for the course id 12 without a custom colour (under
\* different names) and a call for another key, the two having returned the
\* same palette colour.
C7_Witness ==
    /\ nCalls = 3
    /\ \E c1, c2, c3 \in colorCalls :
          /\ c1 # c2
          /\ c1.id = 12 /\ c2.id = 12
          /\ c1.custom = "" /\ c2.custom = ""
          /\ c1.result = c2.result
          /\ c1.result[1] = "chalk"
          /\ KeyOf(c3) # KeyOf(c1)

\* C8: all calls made so far with the same key returned the same colour,
\* whatever custom colour each supplied, and that colour is still the key's
\* cache entry: no call replaced or removed an entry.
C8_SameKeySameColor ==
    /\ \A c1, c2 \in colorCalls :
          KeyOf(c1) = KeyOf(c2) => c1.result = c2.result
    /\ \A c \in colorCalls :
          /\ KeyOf(c) \in DOMAIN courseColorCache
          /\ courseColorCache[KeyOf(c)] = c.result
    /\ lastCall.cachedBefore \subseteq DOMAIN courseColorCache

\* C8 witness: a key first resolved without a custom colour, then called with
\* one: both calls returned the palette colour of the first.
C8_Witness ==
    /\ nCalls >= 2
    /\ lastCall.custom = "#ff0000"
    /\ lastCall.result[1] = "chalk"
    /\ KeyOf(lastCall) \in lastCall.cachedBefore
    /\ \E c \in colorCalls :
          /\ KeyOf(c) = KeyOf(lastCall)
          /\ c.custom = ""
          /\ c.result = lastCall.result

\* The places (group, position in the group) at which the assignment a is a
\* member of an emitted group.
PlacesOf(a) ==
    { <<g, j>> \in (1..Len(weekGroups)) \X (1..MaxItems + 1) :
        /\ j <= Len(weekGroups[g].assignments)
        /\ weekGroups[g].assignments[j] = a }

\* The timestamp of the due date of an assignment that has one.
DueOf(a) == a.due_at[1] * MsPerDay + a.due_at[2]

\* The last instant of the window of the g-th emitted group: its weekStart
\* plus 6 days 23:59:59.999.
WindowEnd(g) == weekGroups[g].weekStart + 6 * MsPerDay + (MsPerDay - 1)

\* C9: in the result of groupByWeek every assignment with a due timestamp is
\* in exactly one group, the one whose weekStart is getWeekStart of its due
\* date, and its due date lies in that group's window; an assignment without
\* due timestamp is in no group; no group is empty and every member is an
\* assignment of the input; the weekStart values are strictly ascending.
C9_ExactlyOneWeekGroup ==
    weekPc = "grouped" =>
      /\ \A i \in 1..Len(weekInput) :
            IF weekInput[i].due_at = NoDue
            THEN PlacesOf(weekInput[i]) = {}
            ELSE /\ Cardinality(PlacesOf(weekInput[i])) = 1
                 /\ \A pl \in PlacesOf(weekInput[i]) :
                       /\ weekGroups[pl[1]].weekStart =
                             GetWeekStart(DueOf(weekInput[i]))
                       /\ weekGroups[pl[1]].weekStart <= DueOf(weekInput[i])
                       /\ DueOf(weekInput[i]) <= WindowEnd(pl[1])
      /\ \A g \in 1..Len(weekGroups) :
            /\ weekGroups[g].assignments # <<>>
            /\ \A j \in 1..Len(weekGroups[g].assignments) :
                  \E i \in 1..Len(weekInput) :
                     weekGroups[g].assignments[j] = weekInput[i]
      /\ \A g \in 1..Len(weekGroups) - 1 :
            weekGroups[g].weekStart < weekGroups[g + 1].weekStart

\* C9 witness: an input whose first assignment is due on the last millisecond
\* of a later week and whose second is due on the first millisecond of an
\* earlier one, grouped into two groups in ascending order.
C9_Witness ==
    /\ weekPc = "grouped"
    /\ Len(weekInput) = 2
    /\ Len(weekGroups) = 2
    /\ weekGroups[1].assignments = <<weekInput[2]>>
    /\ weekGroups[2].assignments = <<weekInput[1]>>
    /\ DueOf(weekInput[2]) = weekGroups[1].weekStart
    /\ DueOf(weekInput[1]) = WindowEnd(2)

\* C10 as claimed: the windows of the emitted groups do not overlap and each
\* begins exactly 7 days after the previous one.
C10_WindowsContiguous ==
    weekPc = "grouped" =>
      \A g \in 1..Len(weekGroups) - 1 :
         /\ WindowEnd(g) < weekGroups[g + 1].weekStart
         /\ weekGroups[g + 1].weekStart - weekGroups[g].weekStart = 7 * MsPerDay

\* C10 as amended: the windows of the emitted groups do not overlap and lie on
\* one grid of weeks: each begins a whole number of weeks (at least one) after
\* the previous one, and no assignment of the input is due between the end
\* of a window and the beginning of the next; only weeks without a due
\* assignment separate them.
C10_WindowsDisjointOnWeekGrid ==
    weekPc = "grouped" =>
      /\ \A g, h \in 1..Len(weekGroups) :
            g < h => WindowEnd(g) < weekGroups[h].weekStart
      /\ \A g \in 1..Len(weekGroups) - 1 :
            LET gap == weekGroups[g + 1].weekStart - weekGroups[g].weekStart
            IN  /\ gap >= 7 * MsPerDay
                /\ gap % (7 * MsPerDay) = 0
                /\ \A i \in 1..Len(weekInput) :
                      weekInput[i].due_at # NoDue =>
                         ~ /\ WindowEnd(g) < DueOf(weekInput[i])
                           /\ DueOf(weekInput[i]) < weekGroups[g + 1].weekStart
                /\ gap = 7 * MsPerDay =>
                      weekGroups[g + 1].weekStart = WindowEnd(g) + 1

\* C10 witness: two groups emitted whose windows are two weeks apart, the
\* week between them having no assignment.
C10_Witness ==
    /\ weekPc = "grouped"
    /\ Len(weekGroups) = 2
    /\ weekGroups[2].weekStart - weekGroups[1].weekStart = 14 * MsPerDay

FilterDue == filterCall.due_at[1] * MsPerDay + filterCall.due_at[2]

\* C12: isDueWithinDays(item, days) with days >= 0 is true exactly when the
\* item has a due timestamp D with now <= D <= now + days * 86400 seconds,
\* both bounds included; an item due before now is never included.
C12_DueWithinDaysIffInWindow ==
    filterCall.fn = "isDueWithinDays" =>
      /\ filterCall.result <=>
            /\ filterCall.due_at # NoDue
            /\ filterCall.now <= FilterDue
            /\ FilterDue <= filterCall.now + filterCall.days * 86400 * 1000
      /\ (filterCall.due_at # NoDue /\ FilterDue < filterCall.now)
            => ~filterCall.result

\* C12 witness: at 1970-01-04T00:00 an item due exactly two days later is
\* within two days.
C12_Witness ==
    /\ filterCall.fn = "isDueWithinDays"
    /\ filterCall.now = 3 * MsPerDay
    /\ filterCall.days = 2
    /\ filterCall.due_at = <<5, 0>>
    /\ filterCall.result

\* C13: isOverdue(item) is true exactly when the item has a due timestamp
\* strictly before now and has_submitted_submissions is false; with the flag
\* true the result is false.
C13_OverdueIffPastAndNotSubmitted ==
    filterCall.fn = "isOverdue" =>
      /\ filterCall.result <=>
            /\ filterCall.due_at # NoDue
            /\ FilterDue < filterCall.now
            /\ filterCall.has_submitted_submissions = FALSE
      /\ filterCall.has_submitted_submissions => ~filterCall.result
      /\ (filterCall.due_at # NoDue /\ FilterDue = filterCall.now)
            => ~filterCall.result

\* C13 witness: an item due one millisecond before now, not submitted, is
\* overdue.
C13_Witness ==
    /\ filterCall.fn = "isOverdue"
    /\ filterCall.now = 3 * MsPerDay
    /\ filterCall.due_at = <<2, MsPerDay - 1>>
    /\ ~filterCall.has_submitted_submissions
    /\ filterCall.result

\* Whether the array after the sort holds the assignments of the input, each
\* once.
SortIsPermutation ==
    /\ Len(sortResult) = Len(sortInput)
    /\ \A i \in 1..Len(sortInput) :
          \E j \in 1..Len(sortResult) : sortResult[j] = sortInput[i]

\* The due timestamp of the i-th assignment after the sort.
SortedDue(i) == sortResult[i].due_at[1] * MsPerDay + sortResult[i].due_at[2]

\* C14: sortByDueDate leaves a permutation of its input in which no
\* assignment without due timestamp precedes one with a due timestamp, the
\* due timestamps are non-decreasing, assignments with the identical due
\* timestamp and assignments that both lack one are in the order of their
\* course names, and assignments equal in all of these are in input order.
C14_SortByDueDateOrder ==
    sortFn = "sortByDueDate" =>
      /\ SortIsPermutation
      /\ \A i, j \in 1..Len(sortResult) :
            i < j =>
              /\ sortResult[i].due_at = NoDue => sortResult[j].due_at = NoDue
              /\ (sortResult[i].due_at # NoDue /\ sortResult[j].due_at # NoDue)
                    => SortedDue(i) <= SortedDue(j)
              /\ sortResult[i].due_at = sortResult[j].due_at =>
                    /\ LocaleCompare(sortResult[i].course_name,
                                     sortResult[j].course_name) <= 0
                    /\ sortResult[i].course_name = sortResult[j].course_name
                          => sortResult[i].id < sortResult[j].id

\* C14 witness: an input that begins with an assignment without due date,
\* followed by two assignments due at the same instant whose course names
\* are out of order; the sort put the dated ones first, by course name.
C14_Witness ==
    /\ sortFn = "sortByDueDate"
    /\ Len(sortInput) = 3
    /\ sortInput[1].due_at = NoDue
    /\ sortInput[2].due_at = <<1, 0>> /\ sortInput[2].course_name = <<66>>
    /\ sortInput[3].due_at = <<1, 0>> /\ sortInput[3].course_name = <<97>>
    /\ sortResult = <<sortInput[3], sortInput[2], sortInput[1]>>

\* The dashboard position of the i-th assignment after the sort, 999 when it
\* has none.
SortedPosition(i) ==
    IF sortResult[i].course_position = <<>> THEN 999
    ELSE sortResult[i].course_position[1]

\* C15: sortByCoursePositionThenDate leaves a permutation of its input in
\* which positions (999 when absent) are non-decreasing whatever the due
\* dates; among assignments of the same position those without due timestamp
\* come last and the due timestamps are non-decreasing; assignments equal in
\* position and due timestamp are in input order.
C15_SortByPositionThenDateOrder ==
    sortFn = "sortByCoursePositionThenDate" =>
      /\ SortIsPermutation
      /\ \A i, j \in 1..Len(sortResult) :
            i < j =>
              /\ SortedPosition(i) <= SortedPosition(j)
              /\ SortedPosition(i) = SortedPosition(j) =>
                    /\ sortResult[i].due_at = NoDue
                          => sortResult[j].due_at = NoDue
                    /\ (sortResult[i].due_at # NoDue
                        /\ sortResult[j].due_at # NoDue)
                          => SortedDue(i) <= SortedDue(j)
                    /\ sortResult[i].due_at = sortResult[j].due_at
                          => sortResult[i].id < sortResult[j].id

\* C15 witness: the assignment of position 1 is due last and comes first;
\* the assignment without position comes before the one of position 1000
\* although it has no due date.
C15_Witness ==
    /\ sortFn = "sortByCoursePositionThenDate"
    /\ Len(sortInput) = 3
    /\ sortInput[1].course_position = <<1000>> /\ sortInput[1].due_at = <<1, 0>>
    /\ sortInput[2].course_position = <<>> /\ sortInput[2].due_at = NoDue
    /\ sortInput[3].course_position = <<1>> /\ sortInput[3].due_at = <<2, 0>>
    /\ sortResult = <<sortInput[3], sortInput[2], sortInput[1]>>

\* The place of the course with identifier id in the course-list response.
ListedAt(id) == CHOOSE k \in 1..Len(apiCourses) : apiCourses[k].id = id

\* C16: what getCourses returned holds every course of the course-list
\* response once, with its fields, with custom_color the colour entry keyed
\* course_<id> (none when the entry is missing) and dashboard_position the
\* position entry keyed course_<id> (999 when the entry is missing, 0 when
\* the entry is 0); the positions are non-decreasing and courses of equal
\* position are in the order of the response.
C16_CoursesMergedAndSorted ==
    idx >= 1 =>
      /\ Len(courses) = Len(apiCourses)
      /\ \A k \in 1..Len(apiCourses) :
            Cardinality({i \in 1..Len(courses) :
                            courses[i].id = apiCourses[k].id}) = 1
      /\ \A i \in 1..Len(courses) :
            /\ courses[i].name = apiCourses[ListedAt(courses[i].id)].name
            /\ courses[i].course_code =
                  apiCourses[ListedAt(courses[i].id)].course_code
            /\ CourseKey(courses[i].id) \notin DOMAIN apiColors
                  => courses[i].custom_color = Null
            /\ (CourseKey(courses[i].id) \in DOMAIN apiColors
                /\ apiColors[CourseKey(courses[i].id)] # "")
                  => courses[i].custom_color =
                        apiColors[CourseKey(courses[i].id)]
            /\ courses[i].dashboard_position =
                  (IF CourseKey(courses[i].id) \in DOMAIN apiPositions
                   THEN apiPositions[CourseKey(courses[i].id)]
                   ELSE 999)
      /\ \A i, j \in 1..Len(courses) :
            i < j =>
              /\ courses[i].dashboard_position <= courses[j].dashboard_position
              /\ courses[i].dashboard_position = courses[j].dashboard_position
                    => ListedAt(courses[i].id) < ListedAt(courses[j].id)

\* C16 witness: of three courses listed in the order 1, 2, 3 the first has no
\* position entry and the others share position 0; the result is 2, 3, 1,
\* the second course carrying its custom colour and the first none.
C16_Witness ==
    /\ idx >= 1
    /\ Len(apiCourses) = 3
    /\ DOMAIN apiPositions = {CourseKey(2), CourseKey(3)}
    /\ apiPositions[CourseKey(2)] = 0 /\ apiPositions[CourseKey(3)] = 0
    /\ courses[1].id = 2 /\ courses[2].id = 3 /\ courses[3].id = 1
    /\ courses[1].custom_color = "#3366ff"
    /\ courses[3].custom_color = Null
    /\ courses[3].dashboard_position = 999

\* The time remaining at a call of getDueDateColor with a due timestamp, in
\* milliseconds.
Remaining(c) == c.due_at[1] * MsPerDay + c.due_at[2] - c.now

\* The integers within one half of start + (end - start) * num / den.
Blends(start, end, num, den) ==
    { v \in 0..255 :
        /\ (2 * (v - start) - 1) * den <= 2 * (end - start) * num
        /\ 2 * (end - start) * num <= (2 * (v - start) + 1) * den }

\* The colour strings whose channels are rounded linear blends of the stops
\* from and to at t = num / den.
BlendColors(from, to, num, den) ==
    { <<"#">> \o ToHex(r) \o ToHex(g) \o ToHex(b) :
        r \in Blends(from.r, to.r, num, den),
        g \in Blends(from.g, to.g, num, den),
        b \in Blends(from.b, to.b, num, den) }

C18_SameDueSameColor ==
    \A c1, c2 \in dueColorCalls :
        c1.due_at = c2.due_at => c1.result = c2.result

\* C18 as amended: getDueDateColor keeps no state, and its result is
\* determined by its argument and the clock: any two calls without due
\* timestamp returned the same colour, and any two calls with the same time
\* remaining (due timestamp minus the clock at the call) returned the same
\* colour, whatever was called before them.
C18_SameRemainingSameColor ==
    \A c1, c2 \in dueColorCalls :
        /\ (c1.due_at = NoDue /\ c2.due_at = NoDue) => c1.result = c2.result
        /\ (c1.due_at # NoDue /\ c2.due_at # NoDue
            /\ Remaining(c1) = Remaining(c2)) => c1.result = c2.result

\* C18 witness: a call for a due date four days after 1970-01-01T00:00 made
\* at that instant, and, three days later, calls for the same due date and
\* for a due date three days after it: the first and the last agree, the
\* second returned the red stop.
C18_Witness ==
    \E c1, c2, c3 \in dueColorCalls :
        /\ c1.due_at = <<4, 0>> /\ c1.now = 0
        /\ c2.due_at = <<4, 0>> /\ c2.now = 3 * MsPerDay
        /\ c3.due_at = <<7, 0>> /\ c3.now = 3 * MsPerDay
        /\ c1.result = c3.result
        /\ c2.result = <<"#", "d", "7", "5", "f", "5", "f">>
        /\ c1.result # c2.result

\* The assignments of cliAssignments that are upcoming up to the end of the
\* current week plus the configured number of additional weeks.
InWeekView(a) ==
    /\ a.due_at # NoDue
    /\ clock <= a.due_at[1] * MsPerDay + a.due_at[2]
    /\ a.due_at[1] * MsPerDay + a.due_at[2] <= TargetWeekEnd

\* C19: when the program run without a command has displayed, what it
\* displayed is the week view: groups of weeks that hold exactly the
\* assignments upcoming up to the end of the current week plus the configured
\* number of additional weeks, and not the flat list of the assignments due
\* in the next 3 days.
C19_NoCommandShowsWeekView ==
    (cliPc = "displayed" /\ cliArgs = "") =>
      /\ cliShown.view = "week"
      /\ \A i \in 1..Len(cliAssignments) :
            InWeekView(cliAssignments[i]) <=>
              \E g \in 1..Len(cliShown.groups) :
                 \E j \in 1..Len(cliShown.groups[g].assignments) :
                    cliShown.groups[g].assignments[j] = cliAssignments[i]

\* Whether the i-th request of the attempt failed: no response, or an HTTP
\* status the request does not accept (outside 2xx for the initiate and
\* confirm requests; neither 301 nor below 400 for the transfer).
RequestFailed(i) ==
    \/ upResponses[i].kind # "http"
    \/ /\ i # 2
       /\ ~(upResponses[i].status >= 200 /\ upResponses[i].status < 300)
    \/ /\ i = 2
       /\ ~(upResponses[i].status = 301 \/ upResponses[i].status < 400)

\* C20: in one attempt of uploadFile each of the initiate, transfer and
\* confirm requests is issued at most once; when a request has failed it is
\* the last request of the attempt, the attempt has failed without a result
\* and can take no further step, and the error the caller gets is the
\* transport or HTTP error of that request.
C20_NoRetryErrorUnchanged ==
    /\ \A i, j \in 1..Len(upRequests) :
          /\ upRequests[i].step \in {1, 2, 3}
          /\ i # j => upRequests[i].step # upRequests[j].step
    /\ Len(upResponses) <= Len(upRequests)
    /\ \A i \in 1..Len(upResponses) :
          RequestFailed(i) =>
            /\ i = Len(upResponses)
            /\ Len(upRequests) = i
            /\ upPc = "Failed"
            /\ upResult = Null
            /\ upError.kind = upResponses[i].kind
            /\ upError.status = upResponses[i].status
            /\ upError.step = i
            /\ ~ENABLED NextUpload

\* C20 witness: the initiate and transfer requests succeeded and the confirm
\* request was answered with 404: three requests were issued, the attempt
\* failed with that HTTP error.
C20_Witness ==
    /\ upPc = "Failed"
    /\ Len(upRequests) = 3
    /\ Len(upResponses) = 3
    /\ upResponses[3].kind = "http"
    /\ upResponses[3].status = 404
    /\ upError = [kind |-> "http", status |-> 404, step |-> 3]

\* C21: once step 2 has an HTTP response, that response was accepted exactly
\* when its status is a success status (2xx) or a redirect status (3xx): an
\* accepted response led to the confirm request, or to the protocol
\* violation when it carried no location; a response with any other status
\* made the upload fail with that HTTP error, and no confirm request was
\* issued.
C21_TransferAcceptsSuccessOrRedirect ==
    (Len(upResponses) >= 2 /\ upResponses[2].kind = "http") =>
      IF upResponses[2].status >= 200 /\ upResponses[2].status <= 399
      THEN IF upResponses[2].location = ""
           THEN /\ upPc = "Failed"
                /\ upError.kind = "protocol"
                /\ Len(upRequests) = 2
           ELSE /\ Len(upRequests) = 3
                /\ upRequests[3].step = 3
                /\ ~(upError.kind = "http" /\ upError.step = 2)
      ELSE /\ upPc = "Failed"
           /\ upError = [kind |-> "http", status |-> upResponses[2].status,
                         step |-> 2]
           /\ Len(upRequests) = 2
           /\ upResult = Null

\* C21 witness: step 2 was answered with the redirect status 302 and a
\* location, and the confirm request went out.
C21_Witness ==
    /\ Len(upResponses) = 2
    /\ upResponses[2].kind = "http"
    /\ upResponses[2].status = 302
    /\ upResponses[2].location = "https://loc/1"
    /\ upPc = "Confirming"
    /\ Len(upRequests) = 3

\* C22: at most one per-course request is in flight; a request is in flight
\* exactly while the loop awaits the current course, and it is that
\* course's; every earlier request has completed or failed before the next
\* is issued; no request is issued before getCourses has completed; the
\* requests go out in the order of the list getCourses returned.
C22_FetchesSequential ==
    /\ Cardinality(inFlight) <= 1
    /\ inFlight = (IF aggPc = "fetching" THEN {courses[idx].id} ELSE {})
    /\ Len(attempted) = Len(outcomes) + (IF aggPc = "fetching" THEN 1 ELSE 0)
    /\ (aggPc \in {"idle", "getCourses"} \/ pending # {} \/ idx = 0)
          => (attempted = <<>> /\ inFlight = {})
    /\ Len(attempted) <= Len(courses)
    /\ \A i \in 1..Len(attempted) : attempted[i] = courses[i].id

\* C22 witness: the request of the second course of the list is in flight
\* after the first course's request failed; the list getCourses returned is
\* not in the order of the course identifiers.
C22_Witness ==
    /\ aggPc = "fetching"
    /\ Len(courses) = 3
    /\ courses[1].id = 3 /\ courses[2].id = 1
    /\ attempted = <<3, 1>>
    /\ Len(outcomes) = 1 /\ outcomes[1].kind = "http"
    /\ inFlight = {1}

\* The place of the k-th course of the course-list response in the list
\* getCourses returns: after the courses of lower position and the courses
\* of equal position listed before it.
PlaceInResult(k) ==
    LET pos(j) == IF CourseKey(apiCourses[j].id) \in DOMAIN apiPositions
                  THEN apiPositions[CourseKey(apiCourses[j].id)]
                  ELSE 999
    IN  1 + Cardinality({ j \in 1..Len(apiCourses) :
                            \/ pos(j) < pos(k)
                            \/ pos(j) = pos(k) /\ j < k })

\* C23: getCourses starts by putting its three requests in flight together
\* and issues none later; while it waits, each request in flight can
\* complete or fail next, whichever the others do; nothing is merged while a
\* request is in flight; the list it returns is determined by the three
\* answers alone, whatever the order they arrived in; when a request fails
\* getAllAssignments raises with no course list, no request for a course
\* and no result.
C23_CourseRequestsJoined ==
    /\ (aggPc = "idle" /\ authenticated) =>
          /\ ENABLED (GetCoursesStart /\ pending' = CourseRequests)
          /\ ~ENABLED (GetCoursesStart /\ pending' # CourseRequests)
    /\ aggPc # "idle" => ~ENABLED (NextAggregate /\ ~(pending' \subseteq pending))
    /\ aggPc = "getCourses" =>
          /\ pending # {}
          /\ \A r \in pending :
                /\ ENABLED GetCoursesArrive(r)
                /\ ENABLED GetCoursesFail(r)
    /\ (aggPc = "getCourses" \/ pending # {}) => (courses = <<>> /\ idx = 0)
    /\ idx >= 1 =>
          /\ pending = {}
          /\ Len(courses) = Len(apiCourses)
          /\ \A k \in 1..Len(apiCourses) :
                courses[PlaceInResult(k)].id = apiCourses[k].id
    /\ (aggPc = "raised" /\ idx = 0) =>
          /\ courses = <<>>
          /\ attempted = <<>>
          /\ allAssignments = <<>>
          /\ aggResult = Null

\* C23 witness: the colour and position answers have arrived and the
\* course-list request is still in flight; nothing has been merged.
C23_Witness ==
    /\ aggPc = "getCourses"
    /\ pending = {"courses"}
    /\ Len(apiCourses) = 3
    /\ DOMAIN apiPositions # {}
    /\ courses = <<>>

\* The weekday of the instant t, 0 for Sunday: 1970-01-01 was a Thursday.
WeekdayOf(t) == ((t \div 86400000) + 4) % 7

\* C24: getWeekStart(d) is at midnight, falls on the configured start day,
\* is not after d and is less than 7 days before d; when d falls on the
\* start day it is the midnight of d's own day.
C24_WeekStartMostRecentStartDay ==
    weekCall.fn = "getWeekStart" =>
      /\ weekCall.result % 86400000 = 0
      /\ WeekdayOf(weekCall.result) = GetWeekStartDay
      /\ weekCall.result <= weekCall.date
      /\ weekCall.date - weekCall.result < 7 * 86400000
      /\ WeekdayOf(weekCall.date) = GetWeekStartDay =>
            weekCall.result = weekCall.date - (weekCall.date % 86400000)

\* C24 witness: with the week starting on Friday, getWeekStart of the last
\* millisecond of Thursday 1970-01-08 is the midnight of Friday 1970-01-02.
C24_Witness ==
    /\ weekCall.fn = "getWeekStart"
    /\ GetWeekStartDay = 5
    /\ weekCall.date = 7 * MsPerDay + (MsPerDay - 1)
    /\ weekCall.result = 1 * MsPerDay

\* C25: getWeekEnd(d) is 23:59:59.999 of the day 6 days after the day of
\* getWeekStart(d), so getWeekStart(d) <= d <= getWeekEnd(d), and it is the
\* same for every date of the week of d.
C25_WeekEndSixDaysAfterStart ==
    weekCall.fn = "getWeekEnd" =>
      /\ weekCall.result =
            GetWeekStart(weekCall.date) + 6 * 86400000 + (86400000 - 1)
      /\ GetWeekStart(weekCall.date) <= weekCall.date
      /\ weekCall.date <= weekCall.result
      /\ \A e \in WeekFnDates :
            GetWeekStart(e) = GetWeekStart(weekCall.date)
               => GetWeekEnd(e) = weekCall.result

\* C25 witness: with the week starting on Monday, getWeekEnd of the first
\* millisecond of Monday 1970-01-05 is 23:59:59.999 of Sunday 1970-01-11.
C25_Witness ==
    /\ weekCall.fn = "getWeekEnd"
    /\ GetWeekStartDay = 1
    /\ weekCall.date = 4 * MsPerDay
    /\ weekCall.result = 10 * MsPerDay + (MsPerDay - 1)

\* Whether the labels of the groups are those of a call made at the instant
\* t: "This Week" and the range for the week containing t, "Next Week" and
\* the range for the week after it, the bare range for every other week, and
\* each of the two named labels on at most one group.
LabelsAt(groups, t) ==
    LET thisWeek == t - (t % 86400000)
                      - ((WeekdayOf(t) - GetWeekStartDay + 7) % 7) * 86400000
    IN  /\ \A g \in 1..Len(groups) :
              /\ groups[g].label[1] = "This Week"
                    <=> groups[g].weekStart = thisWeek
              /\ groups[g].label[1] = "Next Week"
                    <=> groups[g].weekStart = thisWeek + 7 * 86400000
              /\ groups[g].label =
                    (IF groups[g].weekStart = thisWeek
                     THEN <<"This Week">>
                     ELSE IF groups[g].weekStart = thisWeek + 7 * 86400000
                     THEN <<"Next Week">>
                     ELSE <<>>) \o FormatWeekRange(groups[g].weekStart)
        /\ Cardinality({g \in 1..Len(groups) :
                           groups[g].label[1] = "This Week"}) <= 1
        /\ Cardinality({g \in 1..Len(groups) :
                           groups[g].label[1] = "Next Week"}) <= 1

\* C26: every group groupByWeek emitted is labelled "This Week (<range>)"
\* exactly when its weekStart is that of the week containing the instant of
\* the call, "Next Week (<range>)" exactly when it is one week after that,
\* and with the bare range otherwise, past weeks and weeks two or more ahead
\* included; at most one group carries each named label.
C26_WeekLabels ==
    /\ weekPc # "input" => LabelsAt(weekFirst.groups, weekFirst.now)
    /\ weekPc = "regrouped" => LabelsAt(weekGroups, now)

\* C26 witness: on Friday 1970-01-09, with weeks starting on Sunday, the
\* group of the past week of 1969-12-28 carries the bare range and the group
\* of the week of 1970-01-11 is "Next Week".
C26_Witness ==
    /\ weekPc = "grouped"
    /\ weekFirst.now = 8 * MsPerDay + MsPerDay \div 2
    /\ GetWeekStartDay = 0
    /\ Len(weekGroups) = 2
    /\ weekGroups[1].weekStart = -4 * MsPerDay
    /\ weekGroups[1].label = <<"Dec", 28, " - ", "Jan", 3>>
    /\ weekGroups[2].weekStart = 10 * MsPerDay
    /\ weekGroups[2].label = <<"Next Week", "Jan", 11, "-", 17>>

\* Whether a response body is an HTML document: a string that, after its
\* leading white space, starts with the doctype or the html tag.
IsHtmlDocument(data) ==
    /\ data.type = "string"
    /\ \/ StartsWith(Trim(data.text), DoctypePrefix)
       \/ StartsWith(Trim(data.text), HtmlPrefix)

\* Whether the lines printed hold the line l.
Printed(l) == \E i \in 1..Len(errLines) : errLines[i] = l

\* C27: once displayError was called with an error that carries an HTTP
\* response, then for a 503 whose body is not an HTML document, a string or
\* a parsed object, it has returned normally and printed the 503 guidance
\* and the complete response data; for every other status it has printed
\* the status, the status text, the URL and the complete response data.
C27_DisplayErrorComplete ==
    (errPc # "caught" /\ errError.kind = "response") =>
        IF errError.status = 503
        THEN ~IsHtmlDocument(errError.data) =>
                /\ errPc = "returned"
                /\ \A g \in 1..Len(Guidance) : Printed(Guidance[g])
                /\ Printed(Line("", JsonStringify(errError.data)))
        ELSE /\ errPc = "returned"
             /\ Printed(Line("Status:", <<ToString(errError.status)>>))
             /\ Printed(Line("Status Text:", <<errError.statusText>>))
             /\ Printed(Line("URL:", <<IF errError.url # Null
                                       THEN errError.url ELSE "N/A">>))
             /\ Printed(Line("", JsonStringify(errError.data)))

\* The item the latest filter call was about.
FilterItem ==
    [due_at |-> filterCall.due_at,
     has_submitted_submissions |-> filterCall.has_submitted_submissions]

\* C28: for the item a filter was just called with, at the instant of the
\* call and for every window of days >= 0: isDueWithinDays implies isDue;
\* isDue and isOverdue are not both true; with a due timestamp and a false
\* submitted flag exactly one of isDue and isOverdue is true; with no due
\* timestamp isDueWithinDays, isDue and isOverdue are all false.
C28_FiltersConsistent ==
    (filterCall.fn # "none" /\ filterCall.now = clock) =>
      /\ (filterCall.fn = "isDueWithinDays" /\ filterCall.result)
            => IsDue(FilterItem)
      /\ (filterCall.fn = "isDue" /\ ~filterCall.result)
            => \A days \in 0..MaxWindowDays :
                  ~IsDueWithinDays(FilterItem, days)
      /\ (filterCall.fn = "isDue" /\ filterCall.result)
            => ~IsOverdue(FilterItem)
      /\ (filterCall.fn = "isOverdue" /\ filterCall.result)
            => ~IsDue(FilterItem)
      /\ (filterCall.due_at # NoDue
          /\ filterCall.has_submitted_submissions = FALSE)
            => /\ filterCall.fn = "isDue"
                    => (filterCall.result <=> ~IsOverdue(FilterItem))
               /\ filterCall.fn = "isOverdue"
                    => (filterCall.result <=> ~IsDue(FilterItem))
      /\ filterCall.due_at = NoDue
            => /\ ~filterCall.result
               /\ ~IsDue(FilterItem)
               /\ ~IsOverdue(FilterItem)
               /\ \A days \in 0..MaxWindowDays :
                     ~IsDueWithinDays(FilterItem, days)

\* C28 witness: at 1970-01-04T00:00 isDueWithinDays(item, 0) is true of an
\* item due at that very instant and not submitted, which isDue holds of and
\* isOverdue does not.
C28_Witness ==
    /\ filterCall.fn = "isDueWithinDays"
    /\ filterCall.now = 3 * MsPerDay
    /\ clock = 3 * MsPerDay
    /\ filterCall.days = 0
    /\ filterCall.due_at = <<3, 0>>
    /\ ~filterCall.has_submitted_submissions
    /\ filterCall.result
    /\ IsDue(FilterItem)
    /\ ~IsOverdue(FilterItem)

\* Whether x is an element of the sequence s.
InSeq(x, s) == \E i \in 1..Len(s) : s[i] = x

\* C29: submitCommand has issued an upload request only if a course of the
\* list, a file upload assignment of that course and a file of the directory
\* were selected and the confirmation returned true, and the first request is
\* the step-1 request for that assignment; once it returned early (no course,
\* no file upload assignment, no file, a prompt answered with nothing, the
\* confirmation declined) no request was issued; the success message is
\* printed only when uploadFile completed its three steps.
C29_UploadOnlyAfterConfirmation ==
    /\ upRequests # <<>> =>
          /\ InSeq(subCourse, subCourses)
          /\ InSeq(subSelected, subAssignments)
          /\ AcceptsUpload(subSelected)
          /\ subSelected.course_id = subCourse.id
          /\ InSeq(subFile, subFiles)
          /\ subConfirmed
          /\ upRequests[1] =
                [step |-> 1, method |-> "POST",
                 url |-> InitiateUrl(subSelected.course_id, subSelected.id)]
    /\ (subPc = "returned" \/ ~subConfirmed) => upRequests = <<>>
    /\ InSeq("File submitted successfully!", subLog) =>
          /\ upPc = "Complete"
          /\ Len(upRequests) = 3
          /\ Len(upResponses) = 3
          /\ \A i \in 1..3 : upRequests[i].step = i

\* C29 witness: the second course, its assignment 21 and the file "hw" were
\* selected, the confirmation was given, the three steps went through and
\* the success message is printed.
C29_Witness ==
    /\ subPc = "submitted"
    /\ subCourse.id = 2
    /\ subSelected.id = 21
    /\ subFile = <<"h", "w">>
    /\ subConfirmed
    /\ Len(upRequests) = 3
    /\ upRequests[1].url = InitiateUrl(2, 21)
    /\ subLog = <<"File submitted successfully!">>

\* Whether every assignment among the choices accepts online_upload and is
\* due now or later.
OfferedAreFutureUploads(choices) ==
    \A i \in 1..Len(choices) :
        choices[i].kind = "assignment" =>
            /\ AcceptsUpload(choices[i].value)
            /\ choices[i].value.due_at # NoDue
            /\ ParseDate(choices[i].value.due_at) >= clock

\* C30: whenever the assignment prompt of submitCommand is shown its choice
\* list is not empty: it holds an assignment due within 3 days or the "show
\* all" choice; the "show all" choice is there exactly when a future file
\* upload assignment is not due within 3 days; every assignment offered, in
\* the first prompt and in the "show all" one, accepts online_upload and is
\* not past due.
C30_AssignmentChoicesNotEmpty ==
    /\ subPc = "selectAssignment" =>
          /\ subChoices # <<>>
          /\ \/ \E i \in 1..Len(subChoices) :
                   /\ subChoices[i].kind = "assignment"
                   /\ IsDueWithinDays(subChoices[i].value, 3)
             \/ InSeq(ShowAll, subChoices)
          /\ InSeq(ShowAll, subChoices) <=>
                \E i \in 1..Len(subAssignments) :
                    /\ IsDue(subAssignments[i])
                    /\ ~IsDueWithinDays(subAssignments[i], 3)
          /\ OfferedAreFutureUploads(subChoices)
    /\ subPc = "selectAll" =>
          /\ subAllChoices # <<>>
          /\ OfferedAreFutureUploads(subAllChoices)

====
